---- MODULE Spec2Model ----
(***************************************************************************)
(* Realtime layer of the serofero backend (app/routes/realtime.py):        *)
(* the ConnectionManager registry and the per-connection handler           *)
(* user_websocket_endpoint, one asyncio task per WebSocket.  A step of a   *)
(* handler is the code it runs between two suspension points (await of     *)
(* accept / send_json / receive_json).                                     *)
(* Call security (app/utils/call_security.py): the CallSecurityManager     *)
(* singleton, one step per call of one of its methods.                     *)
(***************************************************************************)
EXTENDS Integers, Sequences, FiniteSets, TLC

\* ---------------------------------------------------------------- bounds
NumUsers == 3          \* users in the database, ids 1..NumUsers
MaxConns == 3          \* WebSocket connections opened in a run of Spec
RaceConns == 4         \* WebSocket connections opened in a run of SpecRace
DispatchConns == 2     \* WebSocket connections opened in a run of SpecDispatch
FrameUsers == 2        \* user ids 1..FrameUsers appear in inbound frames
MaxFrames == 2         \* frames the clients send in a run of Spec
DispatchFrames == 1    \* frames the clients send in a run of SpecDispatch
SignalConns == 2       \* WebSocket connections opened in a run of SpecSignal
SignalFrames == 1      \* frames the clients send in a run of SpecSignal
SignalCalls == 1       \* call sessions created in a run of SpecSignal
ValCalls == 1          \* call sessions created in a run of SpecValidate
ValRejects == 1        \* messages rejected in a run of SpecValidate
ValTime == 1           \* seconds the clock runs in SpecValidate
AgeSlack == 1          \* message ages within AgeSlack ms of ReplayLimitMs
MaxPrefix == 2         \* free characters at the start of a call id string
IdSlack == 1           \* call id strings within IdSlack of CallIdLen long
CryptoCalls == 2       \* call sessions created in a run of SpecCrypto
CryptoEnds == 1        \* call sessions ended in a run of SpecCrypto
CryptoSeals == 1       \* envelopes sealed in a run of SpecCrypto
CryptoFails == 1       \* logged crypto failures in a run of SpecCrypto
NumNonces == 2         \* values secrets.token_bytes(12) takes
PermCalls == 10        \* call sessions created in a run of SpecPerm
PermEnds == 1          \* call sessions ended in a run of SpecPerm
PermChecks == 1        \* logged permission checks in a run of SpecPerm
HealthCalls == 2       \* call sessions created in a run of SpecHealth
HealthBeats == 2       \* successful heartbeats per session in SpecHealth
HealthChecks == 1      \* stale findings logged in a run of SpecHealth
HealthEnds == 1        \* sessions ended by end_call_session in SpecHealth
HealthSlack == 1       \* clock readings within HealthSlack s of a threshold
LogCalls == 2          \* call sessions created in a run of SpecLog
LogChecks == 2         \* logged permission checks in a run of SpecLog
LogSlack == 2          \* SpecLog starts within LogSlack entries of a full log
MsgUploads == 1        \* attachment requests in a run of SpecMessages
MsgConns == 2          \* WebSocket connections opened in a run of SpecMessages
AnonConns == 4         \* WebSocket connections opened in a run of SpecAnon
AnonFrames == 2        \* text frames the clients send in a run of SpecAnon
BlockFrames == 1       \* frames the clients send in a run of SpecBlocked
StatusCalls == 1       \* call sessions created in a run of SpecStatus
StatusBeats == 1       \* successful heartbeats per session in SpecStatus
SocialRequests == 2    \* friend requests created in a run of SpecSocial

Users == 1..NumUsers
Max(a, b) == IF a > b THEN a ELSE b
Conns == 1..Max(Max(MaxConns, DispatchConns), RaceConns)

\* ------------------------------------------------------- python sentinels
NoneId == -1           \* dict.get(...) of a missing id field: None
FalsyId == 0           \* an id field that is present but falsy (0)
NoWs == 0              \* active_connections.get(user_id) of a missing key: None
NoUser == 0            \* get_current_user_from_token returning None
WS_1008_POLICY_VIOLATION == 1008
NoValue == "<none>"    \* None for a non-id field

\* ------------------------------------------------------------ token check
TokenSubs == 0..(NumUsers + 1)   \* 0: no "sub" claim; NumUsers+1: not in the db
NoToken == [kind |-> "missing", sub |-> 0]
Tokens ==
    {NoToken, [kind |-> "garbage", sub |-> 0]}
    \cup [kind : {"access", "refresh"}, sub : TokenSubs]

\* verify_token without the check of the "type" claim
verify_token_anytype(tok) ==
    IF tok.kind = "garbage" THEN NoUser
    ELSE IF tok.sub = 0 THEN NoUser
    ELSE tok.sub

\* verify_token: the subject of a well-signed access token, else NoUser (401)
verify_token(tok) ==
    IF tok.kind = "garbage" THEN NoUser
    ELSE IF tok.sub = 0 \/ tok.kind # "access" THEN NoUser
    ELSE tok.sub

\* get_current_user_from_token: the user row of the token's subject, or None
get_current_user_from_token(tok) ==
    LET user_id == verify_token(tok)
    IN  IF user_id = NoUser THEN NoUser
        ELSE IF user_id \in Users THEN user_id ELSE NoUser

\* get_current_user_ws: [user, close]; close is the close code sent (0: none)
get_current_user_ws(tok) ==
    IF tok.kind = "missing"
    THEN [user |-> NoUser, close |-> 1008]
    ELSE LET user == get_current_user_from_token(tok)
         IN  IF user = NoUser
             THEN [user |-> NoUser, close |-> 1008]
             ELSE [user |-> user, close |-> 0]

\* a connection attempt: <<path user_id, token in the query string>>
AllAttempts == Users \X Tokens

\* the attempts of Spec: each user with an access token of their own
CoreAttempts == {<<u, [kind |-> "access", sub |-> u]>> : u \in Users}

\* ---------------------------------------------------------------- payloads
Blank ==
    [type |-> "", status |-> "", user_id |-> NoneId, sender_id |-> NoneId,
     receiver_id |-> NoneId, content |-> NoValue, message_type |-> "",
     offer |-> NoValue, answer |-> NoValue, candidate |-> NoValue,
     caller_info |-> NoValue, from_user_id |-> NoneId]

StatusPayload(st, u) ==
    [Blank EXCEPT !.type = "status", !.status = st, !.user_id = u]

\* --------------------------------------------------------------- registry
\* active_connections: a dict in insertion order, as <<[user, ws], ...>>
HasUser(conns, u) == \E i \in 1..Len(conns) : conns[i].user = u

Lookup(conns, u) ==
    IF HasUser(conns, u)
    THEN conns[CHOOSE i \in 1..Len(conns) : conns[i].user = u].ws
    ELSE NoWs

\* ConnectionManager.connect: self.active_connections[user_id] = websocket
connect(conns, ws, u) ==
    IF HasUser(conns, u)
    THEN [i \in 1..Len(conns) |->
            IF conns[i].user = u THEN [user |-> u, ws |-> ws] ELSE conns[i]]
    ELSE Append(conns, [user |-> u, ws |-> ws])

\* disconnect that clears the dict when the key is present
disconnect_clear(conns, u) == IF HasUser(conns, u) THEN <<>> ELSE conns

\* disconnect that forgets to delete the key
disconnect_keep(conns, u) == conns

\* ConnectionManager.disconnect: delete the key if present
disconnect(conns, u) == SelectSeq(conns, LAMBDA e : e.user # u)

\* a snapshot that does not skip the caller's own entry
Snapshot_all(conns, self) == conns

\* list(self.active_connections.items()) without the entry skipped by
\* "if friend_id == user_id: continue"
Snapshot(conns, self) == SelectSeq(conns, LAMBDA e : e.user # self)

NoSend ==
    [via |-> "none", src |-> 0, user |-> 0, ws |-> NoWs, payload |-> Blank,
     ok |-> FALSE, ret |-> "None", raised |-> FALSE]

VARIABLES
    active_connections, \* manager.active_connections
    pc,                 \* per handler: where the coroutine is suspended
    conn_user,          \* per handler: the path parameter user_id
    token,              \* per handler: the token of the query string
    closeCode,          \* per socket: code of websocket.close(code=...)
    open,               \* per socket: the transport still accepts writes
    snap, idx,          \* per handler: broadcast_to_friends' list and position
    bpayload,           \* per handler: payload of the running broadcast
    pending,            \* per handler: message_payload awaiting the echo
    nconn,              \* sockets opened so far
    nframes,            \* frames received so far
    lastSend,           \* the send_json attempted by the last step
    lastRecv,           \* the frame received by the last step
    registered,         \* handlers that ran manager.connect
    replaced,           \* sockets overwritten in the registry by connect
    teardown            \* per handler: progress of the finally block

\* the CallSecurityManager singleton (app/utils/call_security.py), its clock
\* and the tables of the database it queries
VARIABLES
    active_calls,       \* call_security_manager.active_calls, in insertion order
    security_events,    \* call_security_manager.security_events
    ncalls,             \* call ids and session keys drawn from secrets so far
    now,                \* datetime.utcnow() / time.time(), in seconds
    blocks,             \* table blocks: <<blocker_id, blocked_id>>
    friendships,        \* table friendships: <<user_id, friend_id>>
    sealed,             \* the envelopes encrypt_signaling_data has returned
    lastOp              \* the manager operation of the last step and its result

\* the message endpoint (app/routes/messages.py): the messages table, the
\* directory of buffered files and the requests in progress
VARIABLES
    messages,           \* table messages: the rows, by id
    temp_media,         \* the files in TEMP_MEDIA_DIR, by the request that wrote them
    uploads,            \* per request: where send_message and its task stand
    pushes,             \* the events handed to manager.send_json_to_user so far
    friend_requests     \* table friend_requests: the rows

msg_vars == <<messages, temp_media, uploads, pushes, friend_requests>>

mgr_vars == <<active_calls, security_events, ncalls, now, blocks, friendships,
              sealed, lastOp>>

ws_vars == <<active_connections, pc, conn_user, token, closeCode, open, snap,
             idx, bpayload, pending, nconn, nframes, lastSend, lastRecv,
             registered, replaced, teardown>>

vars == <<active_connections, pc, conn_user, token, closeCode, open, snap,
          idx, bpayload, pending, nconn, nframes, lastSend, lastRecv, registered,
          replaced, teardown, active_calls, security_events, ncalls, now,
          blocks, friendships, sealed, lastOp, messages, temp_media, uploads,
          pushes, friend_requests>>


\* ------------------------------------------------------------ inbound frames
Types ==
    {"typing_start", "typing_stop", "message", "webrtc-offer", "webrtc-answer",
     "webrtc-ice-candidate", "call-ended", "ping"}

FrameIds == {NoneId, FalsyId} \cup (1..FrameUsers)

\* the type-specific fields a frame carries (NoValue: key missing)
NoExtras ==
    [content |-> NoValue, offer |-> NoValue, answer |-> NoValue,
     candidate |-> NoValue, caller_info |-> NoValue]

AllExtras ==
    [content |-> "hi", offer |-> "sdp-o", answer |-> "sdp-a",
     candidate |-> "ice", caller_info |-> "bob"]

Extras == {NoExtras, AllExtras}

Frame(ty, dk, dr, r, t, x, spoof) ==
    [type |-> ty, data |-> dk, data_rid |-> dr, receiver_id |-> r,
     to_user_id |-> t, content |-> x.content, offer |-> x.offer,
     answer |-> x.answer, candidate |-> x.candidate,
     caller_info |-> x.caller_info, from_user_id |-> spoof]

NullFrame == Frame("", "absent", NoneId, NoneId, NoneId, NoExtras, NoneId)

\* data: key missing or falsy ("absent"), a JSON object, or a truthy non-object
DataShapes ==
    {<<"absent", NoneId>>, <<"scalar", NoneId>>}
    \cup {<<"object", r>> : r \in FrameIds}

\* every frame also carries a client-chosen from_user_id / user_id: FrameUsers
AllFrames ==
    {Frame(ty, d[1], d[2], r, t, x, FrameUsers) :
        ty \in Types, d \in DataShapes, r \in {NoneId} \cup (1..FrameUsers),
        t \in {NoneId} \cup (1..FrameUsers), x \in Extras}

\* the frames of Spec: top-level receiver_id only
CoreFrames ==
    {f \in AllFrames :
        /\ f.type \in {"typing_start", "message", "ping"}
        /\ f.data \in {"absent", "scalar"}
        /\ f.data = "scalar" => f.type = "ping" /\ f.receiver_id = NoneId
        /\ f.to_user_id = NoneId
        /\ f.content # NoValue <=> f.type = "message"}

Truthy(id) == id # NoneId /\ id # FalsyId

\* a resolution that prefers the top-level receiver_id to the nested one
ResolveReceiver_toplevel(f) ==
    LET nested == IF f.data = "object" THEN f.data_rid ELSE NoneId
    IN  IF Truthy(f.receiver_id) THEN f.receiver_id
        ELSE IF Truthy(nested) THEN nested
        ELSE f.to_user_id

\* receiver_id = (data.get("data") or {}).get("receiver_id")
\*               or data.get("receiver_id") or data.get("to_user_id")
ResolveReceiver(f) ==
    LET nested == IF f.data = "object" THEN f.data_rid ELSE NoneId
    IN  IF Truthy(nested) THEN nested
        ELSE IF Truthy(f.receiver_id) THEN f.receiver_id
        ELSE f.to_user_id

\* the payloads the receive loop builds (created_at is left out)
TypingPayload(ty, user_id) ==
    [Blank EXCEPT !.type = ty, !.user_id = user_id]

\* MessagePayload with sender and receiver exchanged
MessagePayload_swapped(user_id, receiver_id, content) ==
    [Blank EXCEPT !.type = "new_message", !.sender_id = receiver_id,
                  !.receiver_id = user_id, !.content = content,
                  !.message_type = "text"]

MessagePayload(user_id, receiver_id, content) ==
    [Blank EXCEPT !.type = "new_message", !.sender_id = user_id,
                  !.receiver_id = receiver_id, !.content = content,
                  !.message_type = "text"]

\* OfferPayload that trusts the from_user_id of the frame
OfferPayload_spoofed(f, user_id) ==
    [Blank EXCEPT !.type = "webrtc-offer", !.offer = f.offer,
                  !.from_user_id = f.from_user_id,
                  !.caller_info = f.caller_info]

OfferPayload(f, user_id) ==
    [Blank EXCEPT !.type = "webrtc-offer", !.offer = f.offer,
                  !.from_user_id = user_id, !.caller_info = f.caller_info]

AnswerPayload(f, user_id) ==
    [Blank EXCEPT !.type = "webrtc-answer", !.answer = f.answer,
                  !.from_user_id = user_id]

CandidatePayload(f, user_id) ==
    [Blank EXCEPT !.type = "webrtc-ice-candidate", !.candidate = f.candidate,
                  !.from_user_id = user_id]

EndPayload(user_id) ==
    [Blank EXCEPT !.type = "call-ended", !.from_user_id = user_id]

\* IsMessage without the test of "content"
IsMessage_nocontent(f, receiver_id) ==
    f.type = "message" /\ Truthy(receiver_id)

\* elif data.get("type") == "message" and receiver_id and "content" in data
IsMessage(f, receiver_id) ==
    f.type = "message" /\ Truthy(receiver_id) /\ f.content # NoValue

\* a chain whose message branch sends to the sender first
Dispatch_echofirst(f, user_id) ==
    LET receiver_id == ResolveReceiver(f)
        fwd(p) == [kind |-> "forward", to |-> receiver_id, payload |-> p]
    IN  IF f.data = "scalar"
        THEN [kind |-> "raise", to |-> NoneId, payload |-> Blank]
        ELSE IF f.type = "typing_start" /\ Truthy(receiver_id)
        THEN fwd(TypingPayload("typing_start", user_id))
        ELSE IF f.type = "typing_stop" /\ Truthy(receiver_id)
        THEN fwd(TypingPayload("typing_stop", user_id))
        ELSE IF IsMessage(f, receiver_id)
        THEN [kind |-> "message", to |-> user_id,
              payload |-> MessagePayload(user_id, receiver_id, f.content)]
        ELSE IF f.type = "webrtc-offer" /\ Truthy(receiver_id)
        THEN fwd(OfferPayload(f, user_id))
        ELSE IF f.type = "webrtc-answer" /\ Truthy(receiver_id)
        THEN fwd(AnswerPayload(f, user_id))
        ELSE IF f.type = "webrtc-ice-candidate" /\ Truthy(receiver_id)
        THEN fwd(CandidatePayload(f, user_id))
        ELSE IF f.type = "call-ended" /\ Truthy(receiver_id)
        THEN fwd(EndPayload(user_id))
        ELSE [kind |-> "ignore", to |-> NoneId, payload |-> Blank]

\* the if/elif chain of the receive loop: what one frame makes the handler do
Dispatch(f, user_id) ==
    LET receiver_id == ResolveReceiver(f)
        fwd(p) == [kind |-> "forward", to |-> receiver_id, payload |-> p]
    IN  IF f.data = "scalar"
        THEN [kind |-> "raise", to |-> NoneId, payload |-> Blank]
        ELSE IF f.type = "typing_start" /\ Truthy(receiver_id)
        THEN fwd(TypingPayload("typing_start", user_id))
        ELSE IF f.type = "typing_stop" /\ Truthy(receiver_id)
        THEN fwd(TypingPayload("typing_stop", user_id))
        ELSE IF IsMessage(f, receiver_id)
        THEN [kind |-> "message", to |-> receiver_id,
              payload |-> MessagePayload(user_id, receiver_id, f.content)]
        ELSE IF f.type = "webrtc-offer" /\ Truthy(receiver_id)
        THEN fwd(OfferPayload(f, user_id))
        ELSE IF f.type = "webrtc-answer" /\ Truthy(receiver_id)
        THEN fwd(AnswerPayload(f, user_id))
        ELSE IF f.type = "webrtc-ice-candidate" /\ Truthy(receiver_id)
        THEN fwd(CandidatePayload(f, user_id))
        ELSE IF f.type = "call-ended" /\ Truthy(receiver_id)
        THEN fwd(EndPayload(user_id))
        ELSE [kind |-> "ignore", to |-> NoneId, payload |-> Blank]

NoRecv == [src |-> 0, frame |-> NullFrame]

\* ------------------------------------------------------------------ sends
\* send_json_to_user without the except branch's self.disconnect(user_id)
send_json_to_user_keep(conns, payload, user_id, src) ==
    LET websocket == Lookup(conns, user_id)
        log == [via |-> "send", src |-> src, user |-> user_id, ws |-> websocket,
                payload |-> payload, ok |-> FALSE, ret |-> "None",
                raised |-> FALSE]
    IN  IF websocket = NoWs
        THEN [conns |-> conns, log |-> log]
        ELSE IF open[websocket]
        THEN [conns |-> conns, log |-> [log EXCEPT !.ok = TRUE]]
        ELSE [conns |-> conns, log |-> log]

\* ConnectionManager.send_json_to_user, as [conns, log]: the registry after the
\* call and the send_json it attempted.  It has no return statement.
send_json_to_user(conns, payload, user_id, src) ==
    LET websocket == Lookup(conns, user_id)
        log == [via |-> "send", src |-> src, user |-> user_id, ws |-> websocket,
                payload |-> payload, ok |-> FALSE, ret |-> "None",
                raised |-> FALSE]
    IN  IF websocket = NoWs
        THEN [conns |-> conns, log |-> log]
        ELSE IF open[websocket]
        THEN [conns |-> conns, log |-> [log EXCEPT !.ok = TRUE]]
        ELSE [conns |-> disconnect(conns, user_id), log |-> log]

\* an iteration of broadcast_to_friends that removes the whole registry when
\* a send fails
BroadcastOne_clear(conns, payload, entry, src) ==
    LET log == [via |-> "broadcast", src |-> src, user |-> entry.user,
                ws |-> entry.ws, payload |-> payload, ok |-> FALSE,
                ret |-> "None", raised |-> FALSE]
    IN  IF open[entry.ws]
        THEN [conns |-> conns, log |-> [log EXCEPT !.ok = TRUE]]
        ELSE [conns |-> <<>>, log |-> log]

\* one iteration of the loop of broadcast_to_friends over its snapshot
BroadcastOne(conns, payload, entry, src) ==
    LET log == [via |-> "broadcast", src |-> src, user |-> entry.user,
                ws |-> entry.ws, payload |-> payload, ok |-> FALSE,
                ret |-> "None", raised |-> FALSE]
    IN  IF open[entry.ws]
        THEN [conns |-> conns, log |-> [log EXCEPT !.ok = TRUE]]
        ELSE [conns |-> disconnect(conns, entry.user), log |-> log]


\* ---------------------------------------------------- call security manager
CallIdLen == 64            \* len(secrets.token_hex(32)), tested by is_valid_call_id
max_calls == 10            \* check_call_rate_limit: calls allowed per window
window_minutes == 5        \* check_call_rate_limit: length of the window
ReplayLimitMs == 30000     \* validate_signaling_message: oldest accepted age
MaxEvents == 1000          \* log_security_event: entries kept
StaleAfter == 30           \* check_call_health: seconds without heartbeat
CleanupAfter == 60         \* cleanup_stale_calls: seconds without heartbeat

\* a str is the sequence of its characters
Rep(ch, n) == [i \in 1..n |-> ch]

HexSeq ==
    <<"0", "1", "2", "3", "4", "5", "6", "7", "8", "9",
      "a", "b", "c", "d", "e", "f">>

HexChars ==
    {HexSeq[i] : i \in 1..Len(HexSeq)} \cup {"A", "B", "C", "D", "E", "F"}

SpaceChars == {" ", "\n"}

\* the k-th value of secrets.token_hex(32): 64 lowercase hex digits, distinct
\* from the values drawn before
generate_call_id(k) ==
    [i \in 1..CallIdLen |->
        IF i = CallIdLen THEN HexSeq[(k % 16) + 1]
        ELSE IF i = CallIdLen - 1 THEN HexSeq[((k \div 16) % 16) + 1]
        ELSE IF i = CallIdLen - 2 THEN HexSeq[((k \div 256) % 16) + 1]
        ELSE "0"]

\* the k-th value of secrets.token_bytes(32)
token_bytes(k) == k
NoKey == 0

\* ---- active_calls: a dict in insertion order, as a sequence of sessions
HasCall(calls, call_id) == \E i \in 1..Len(calls) : calls[i].call_id = call_id

GetCall(calls, call_id) ==
    calls[CHOOSE i \in 1..Len(calls) : calls[i].call_id = call_id]

\* an assignment that rebinds active_calls to the new session alone
PutCall_alone(calls, session) == <<session>>

\* self.active_calls[call_id] = call_session
PutCall(calls, session) ==
    IF HasCall(calls, session.call_id)
    THEN [i \in 1..Len(calls) |->
            IF calls[i].call_id = session.call_id THEN session ELSE calls[i]]
    ELSE Append(calls, session)

\* a delete that removes the oldest session instead
DelCall_oldest(calls, call_id) == Tail(calls)

\* del self.active_calls[call_id]
DelCall(calls, call_id) == SelectSeq(calls, LAMBDA s : s.call_id # call_id)

\* a log that stops taking events once it holds MaxEvents entries
log_security_event_keepfirst(events, event_type, details) ==
    LET event == [type |-> event_type, timestamp |-> now, details |-> details]
        all == Append(events, event)
    IN  IF Len(all) > MaxEvents THEN SubSeq(all, 1, MaxEvents) ELSE all

\* ---- log_security_event: append, keep the last MaxEvents entries
log_security_event(events, event_type, details) ==
    LET event == [type |-> event_type, timestamp |-> now, details |-> details]
        all == Append(events, event)
    IN  IF Len(all) > MaxEvents
        THEN SubSeq(all, Len(all) - MaxEvents + 1, Len(all))
        ELSE all

\* the event types that log_security_event also prints
critical_events ==
    {"call_blocked", "call_rate_limited", "replay_attack_detected",
     "unauthorized_call_access", "encryption_failed", "decryption_failed"}

\* ---- create_call_session, as [calls, events, ret]; k numbers the draw from
\* secrets
create_call_session(calls, events, k, caller_id, receiver_id, call_type) ==
    LET call_id == generate_call_id(k)
        call_session ==
            [call_id |-> call_id, caller_id |-> caller_id,
             receiver_id |-> receiver_id, call_type |-> call_type,
             session_key |-> token_bytes(k), created_at |-> now,
             status |-> "initiating", security_level |-> "high",
             encryption_enabled |-> TRUE, heartbeat_count |-> 0,
             last_heartbeat |-> now]
    IN  [calls |-> PutCall(calls, call_session),
         events |-> log_security_event(events, "call_session_created",
                        [call_id |-> call_id, caller_id |-> caller_id,
                         receiver_id |-> receiver_id, call_type |-> call_type]),
         ret |-> call_session]

\* ---- check_call_rate_limit
check_call_rate_limit(calls, user_id) ==
    LET window_start == now - window_minutes * 60
        recent_calls ==
            Cardinality({i \in 1..Len(calls) :
                            /\ calls[i].caller_id = user_id
                            /\ calls[i].created_at > window_start})
    IN  recent_calls < max_calls

\* the block query that looks for the caller's block only
block_query_oneway(db_blocks, caller_id, receiver_id) ==
    <<caller_id, receiver_id>> \in db_blocks

\* db.query(models.Block).filter(... | ...).first() is not None
block_query(db_blocks, caller_id, receiver_id) ==
    \/ <<caller_id, receiver_id>> \in db_blocks
    \/ <<receiver_id, caller_id>> \in db_blocks

\* db.query(models.friendship_table).filter(... | ...).first() is not None
friendship_query(db_friends, caller_id, receiver_id) ==
    \/ <<caller_id, receiver_id>> \in db_friends
    \/ <<receiver_id, caller_id>> \in db_friends

\* ---- validate_call_permissions, as [events, ok, text]
validate_call_permissions(calls, events, db_blocks, db_friends, caller_id, receiver_id) ==
    IF block_query(db_blocks, caller_id, receiver_id)
    THEN [events |-> log_security_event(events, "call_blocked",
                        [caller_id |-> caller_id, receiver_id |-> receiver_id,
                         reason |-> "user_blocked"]),
          ok |-> FALSE, text |-> "Call not allowed - user blocked"]
    ELSE LET ev == IF ~friendship_query(db_friends, caller_id, receiver_id)
                   THEN log_security_event(events, "call_non_friend",
                            [caller_id |-> caller_id,
                             receiver_id |-> receiver_id,
                             reason |-> "not_friends"])
                   ELSE events
         IN  IF ~check_call_rate_limit(calls, caller_id)
             THEN [events |-> log_security_event(ev, "call_rate_limited",
                                [caller_id |-> caller_id,
                                 receiver_id |-> receiver_id,
                                 reason |-> "rate_limit_exceeded"]),
                   ok |-> FALSE, text |-> "Too many call attempts - please wait"]
             ELSE [events |-> ev, ok |-> TRUE, text |-> "Call allowed"]

\* ---- end_call_session, as [calls, events, ret]
end_call_session(calls, events, call_id, reason) ==
    IF ~HasCall(calls, call_id)
    THEN [calls |-> calls, events |-> events, ret |-> FALSE]
    ELSE LET call_session == GetCall(calls, call_id)
         IN  [calls |-> DelCall(calls, call_id),
              events |-> log_security_event(events, "call_session_ended",
                            [call_id |-> call_id,
                             caller_id |-> call_session.caller_id,
                             receiver_id |-> call_session.receiver_id,
                             duration |-> now - call_session.created_at,
                             reason |-> reason,
                             heartbeat_count |-> call_session.heartbeat_count]),
              ret |-> TRUE]

\* ---- get_active_calls_for_user: the list it returns
get_active_calls_for_user(calls, user_id) ==
    LET mine == SelectSeq(calls,
                    LAMBDA s : user_id \in {s.caller_id, s.receiver_id})
    IN  [i \in 1..Len(mine) |->
            [call_id |-> mine[i].call_id, caller_id |-> mine[i].caller_id,
             receiver_id |-> mine[i].receiver_id,
             call_type |-> mine[i].call_type, status |-> mine[i].status,
             created_at |-> mine[i].created_at,
             duration |-> now - mine[i].created_at]]

\* ---- is_valid_call_id
\* int(s, 16) does not raise ValueError: surrounding whitespace, one sign, the
\* prefix 0x or 0X with one underscore after it, then hex digits with single
\* underscores between them
IsDigits16(v) ==
    /\ Len(v) > 0
    /\ v[1] \in HexChars /\ v[Len(v)] \in HexChars
    /\ \A i \in 1..Len(v) : v[i] \in HexChars \cup {"_"}
    /\ \A i \in 1..(Len(v) - 1) : ~(v[i] = "_" /\ v[i + 1] = "_")

ParsesAsInt16(s) ==
    LET ink(i) == s[i] \notin SpaceChars
    IN  IF \A i \in 1..Len(s) : ~ink(i) THEN FALSE
        ELSE LET lo == CHOOSE i \in 1..Len(s) :
                            ink(i) /\ \A j \in 1..(i - 1) : ~ink(j)
                 hi == CHOOSE i \in 1..Len(s) :
                            ink(i) /\ \A j \in (i + 1)..Len(s) : ~ink(j)
                 t == SubSeq(s, lo, hi)
                 u == IF t[1] \in {"+", "-"} THEN Tail(t) ELSE t
                 prefixed == Len(u) >= 2 /\ u[1] = "0" /\ u[2] \in {"x", "X"}
                 w == IF prefixed THEN SubSeq(u, 3, Len(u)) ELSE u
                 v == IF prefixed /\ Len(w) > 0 /\ w[1] = "_"
                      THEN Tail(w) ELSE w
             IN  IsDigits16(v)

is_valid_call_id(call_id) ==
    IF call_id = <<>> \/ Len(call_id) # CallIdLen THEN FALSE
    ELSE ParsesAsInt16(call_id)

\* ---- a signaling message handed to validate_signaling_message:
\* timestamp [has, ms] (key present, milliseconds) and call_id [kind, s] with
\* kind "absent" (no key, or None), "str" or "int" (a non-zero number)
NoCallId == [kind |-> "absent", s |-> <<>>]
StrCallId(s) == [kind |-> "str", s |-> s]
IntCallId == [kind |-> "int", s |-> <<>>]
NoTimestamp == [has |-> FALSE, ms |-> 0]
Timestamp(ms) == [has |-> TRUE, ms |-> ms]

Message(ty, ts, cid) == [type |-> ty, timestamp |-> ts, call_id |-> cid]

\* the replay test that also rejects the age ReplayLimitMs itself
IsReplay_inclusive(message_age) == message_age >= ReplayLimitMs

\* if message_age > 30000
IsReplay(message_age) == message_age > ReplayLimitMs

\* the authorization test that only admits the caller
IsParty_calleronly(call_session, user_id) ==
    user_id \in {call_session.caller_id}

\* user_id in [call_session['caller_id'], call_session['receiver_id']]
IsParty(call_session, user_id) ==
    user_id \in {call_session.caller_id, call_session.receiver_id}

\* a validation that treats a message without a timestamp as a replay
validate_signaling_message_strict(calls, events, message, user_id) ==
    LET message_age == now * 1000 - message.timestamp.ms
        call_id == message.call_id
        truthy == call_id.kind = "int" \/ (call_id.kind = "str" /\ call_id.s # <<>>)
    IN  IF ~message.timestamp.has \/ IsReplay(message_age)
        THEN [events |-> log_security_event(events, "replay_attack_detected",
                            [user_id |-> user_id, message_age |-> message_age,
                             message_type |-> message.type]),
              ok |-> FALSE, raised |-> FALSE,
              text |-> "Message too old - possible replay attack"]
        ELSE IF call_id.kind = "int"
        THEN \* len(call_id) raises TypeError inside is_valid_call_id
             [events |-> events, ok |-> FALSE, raised |-> TRUE,
              text |-> "TypeError"]
        ELSE IF truthy /\ ~is_valid_call_id(call_id.s)
        THEN [events |-> log_security_event(events, "invalid_call_id",
                            [user_id |-> user_id, call_id |-> call_id.s,
                             message_type |-> message.type]),
              ok |-> FALSE, raised |-> FALSE,
              text |-> "Invalid call ID format"]
        ELSE IF truthy /\ HasCall(calls, call_id.s)
                /\ ~IsParty(GetCall(calls, call_id.s), user_id)
        THEN [events |-> log_security_event(events, "unauthorized_call_access",
                            [user_id |-> user_id, call_id |-> call_id.s,
                             message_type |-> message.type]),
              ok |-> FALSE, raised |-> FALSE,
              text |-> "Unauthorized access to call"]
        ELSE [events |-> events, ok |-> TRUE, raised |-> FALSE,
              text |-> "Message valid"]

\* ---- validate_signaling_message, as [events, ok, text, raised]
validate_signaling_message(calls, events, message, user_id) ==
    LET message_age == now * 1000 - message.timestamp.ms
        call_id == message.call_id
        truthy == call_id.kind = "int" \/ (call_id.kind = "str" /\ call_id.s # <<>>)
    IN  IF message.timestamp.has /\ IsReplay(message_age)
        THEN [events |-> log_security_event(events, "replay_attack_detected",
                            [user_id |-> user_id, message_age |-> message_age,
                             message_type |-> message.type]),
              ok |-> FALSE, raised |-> FALSE,
              text |-> "Message too old - possible replay attack"]
        ELSE IF call_id.kind = "int"
        THEN \* len(call_id) raises TypeError inside is_valid_call_id
             [events |-> events, ok |-> FALSE, raised |-> TRUE,
              text |-> "TypeError"]
        ELSE IF truthy /\ ~is_valid_call_id(call_id.s)
        THEN [events |-> log_security_event(events, "invalid_call_id",
                            [user_id |-> user_id, call_id |-> call_id.s,
                             message_type |-> message.type]),
              ok |-> FALSE, raised |-> FALSE,
              text |-> "Invalid call ID format"]
        ELSE IF truthy /\ HasCall(calls, call_id.s)
                /\ ~IsParty(GetCall(calls, call_id.s), user_id)
        THEN [events |-> log_security_event(events, "unauthorized_call_access",
                            [user_id |-> user_id, call_id |-> call_id.s,
                             message_type |-> message.type]),
              ok |-> FALSE, raised |-> FALSE,
              text |-> "Unauthorized access to call"]
        ELSE [events |-> events, ok |-> TRUE, raised |-> FALSE,
              text |-> "Message valid"]

\* ---- signaling data: a python dict as the sequence of its items, each key
\* and value a [kind, text] (text: the repr of the python object)
PyObj(kind, text) == [kind |-> kind, text |-> text]
Item(k, v) == [k |-> k, v |-> v]

\* json.dumps of a key: str as it is, int by its digits, bool and None by
\* their JSON names
dumps_key(k) ==
    CASE k.kind = "str" -> k.text
      [] k.kind = "int" -> k.text
      [] k.kind = "bool" -> (IF k.text = "True" THEN "true" ELSE "false")
      [] k.kind = "none" -> "null"

\* json.dumps of a value: a tuple is written as an array
dumps_value(v) == IF v.kind = "tuple" THEN PyObj("list", v.text) ELSE v

Serializable(data) ==
    \A i \in 1..Len(data) :
        /\ data[i].k.kind \in {"str", "int", "bool", "none"}
        /\ data[i].v.kind \in {"str", "int", "list", "tuple", "none"}

\* json.dumps(data): the members of the JSON object, in order
json_dumps(data) ==
    [i \in 1..Len(data) |->
        [name |-> dumps_key(data[i].k), value |-> dumps_value(data[i].v)]]

\* json.loads(text): a repeated name keeps its first position and its last
\* value
json_loads(members) ==
    LET first(i) == \A j \in 1..(i - 1) : members[j].name # members[i].name
        last(name) == CHOOSE i \in 1..Len(members) :
                        /\ members[i].name = name
                        /\ \A j \in (i + 1)..Len(members) :
                                members[j].name # name
        order == SelectSeq([i \in 1..Len(members) |-> i], first)
    IN  [n \in 1..Len(order) |->
            Item(PyObj("str", members[order[n]].name),
                 members[last(members[order[n]].name)].value)]

\* AESGCM(key).encrypt(nonce, plaintext, None)
aesgcm_encrypt(key, nonce, plaintext) ==
    [key |-> key, nonce |-> nonce, plaintext |-> plaintext]

\* an authentication that does not depend on the key
aesgcm_opens_anykey(key, nonce, ciphertext) == ciphertext.nonce = nonce

\* AESGCM(key).decrypt(nonce, ciphertext, None) does not raise InvalidTag
aesgcm_opens(key, nonce, ciphertext) ==
    ciphertext.key = key /\ ciphertext.nonce = nonce

b64encode(bytes) == [b64 |-> bytes]
b64decode(str) == str.b64

NoneRet == [none |-> TRUE]

\* ---- encrypt_signaling_data, as [events, ret]; nonce is the value drawn
\* from secrets.token_bytes(12)
encrypt_signaling_data(calls, events, call_id, data, nonce) ==
    IF ~HasCall(calls, call_id)
    THEN [events |-> events, ret |-> NoneRet]
    ELSE LET session_key == GetCall(calls, call_id).session_key
         IN  IF ~Serializable(data)
             THEN [events |-> log_security_event(events, "encryption_failed",
                                [call_id |-> call_id, error |-> "TypeError"]),
                   ret |-> NoneRet]
             ELSE [events |-> events,
                   ret |-> [none |-> FALSE,
                            encrypted_data |-> b64encode(
                                aesgcm_encrypt(session_key, nonce,
                                               json_dumps(data))),
                            nonce |-> b64encode(nonce),
                            is_encrypted |-> TRUE]]

\* decrypt_signaling_data without json.loads: the plaintext as it is
decrypt_signaling_data_raw(calls, events, call_id, encrypted_data, nonce) ==
    IF ~HasCall(calls, call_id)
    THEN [events |-> events, ret |-> NoneRet]
    ELSE LET session_key == GetCall(calls, call_id).session_key
             ciphertext == b64decode(encrypted_data)
             nonce_bytes == b64decode(nonce)
         IN  IF ~aesgcm_opens(session_key, nonce_bytes, ciphertext)
             THEN [events |-> log_security_event(events, "decryption_failed",
                                [call_id |-> call_id, error |-> "InvalidTag"]),
                   ret |-> NoneRet]
             ELSE [events |-> events,
                   ret |-> [none |-> FALSE,
                            data |-> ciphertext.plaintext]]

\* ---- decrypt_signaling_data, as [events, ret]
decrypt_signaling_data(calls, events, call_id, encrypted_data, nonce) ==
    IF ~HasCall(calls, call_id)
    THEN [events |-> events, ret |-> NoneRet]
    ELSE LET session_key == GetCall(calls, call_id).session_key
             ciphertext == b64decode(encrypted_data)
             nonce_bytes == b64decode(nonce)
         IN  IF ~aesgcm_opens(session_key, nonce_bytes, ciphertext)
             THEN [events |-> log_security_event(events, "decryption_failed",
                                [call_id |-> call_id, error |-> "InvalidTag"]),
                   ret |-> NoneRet]
             ELSE [events |-> events,
                   ret |-> [none |-> FALSE,
                            data |-> json_loads(ciphertext.plaintext)]]

\* a heartbeat that refreshes every stored session
update_call_heartbeat_all(calls, call_id) ==
    IF ~HasCall(calls, call_id)
    THEN [calls |-> calls, ret |-> FALSE]
    ELSE [calls |-> [i \in 1..Len(calls) |->
                        [calls[i] EXCEPT !.last_heartbeat = now,
                                         !.heartbeat_count = @ + 1]],
          ret |-> TRUE]

\* a heartbeat that also marks the session as active
update_call_heartbeat_active(calls, call_id) ==
    IF ~HasCall(calls, call_id)
    THEN [calls |-> calls, ret |-> FALSE]
    ELSE [calls |-> [i \in 1..Len(calls) |->
                        IF calls[i].call_id = call_id
                        THEN [calls[i] EXCEPT !.last_heartbeat = now,
                                              !.heartbeat_count = @ + 1,
                                              !.status = "active"]
                        ELSE calls[i]],
          ret |-> TRUE]

\* ---- update_call_heartbeat, as [calls, ret]
update_call_heartbeat(calls, call_id) ==
    IF ~HasCall(calls, call_id)
    THEN [calls |-> calls, ret |-> FALSE]
    ELSE [calls |-> [i \in 1..Len(calls) |->
                        IF calls[i].call_id = call_id
                        THEN [calls[i] EXCEPT !.last_heartbeat = now,
                                              !.heartbeat_count = @ + 1]
                        ELSE calls[i]],
          ret |-> TRUE]

\* the staleness test that already fires at StaleAfter seconds
IsStale_inclusive(time_since_heartbeat) == time_since_heartbeat >= StaleAfter

\* if time_since_heartbeat > 30
IsStale(time_since_heartbeat) == time_since_heartbeat > StaleAfter

\* ---- check_call_health, as [events, ret]
check_call_health(calls, events, call_id) ==
    IF ~HasCall(calls, call_id)
    THEN [events |-> events, ret |-> [status |-> "not_found"]]
    ELSE LET call_session == GetCall(calls, call_id)
             time_since_heartbeat == now - call_session.last_heartbeat
         IN  IF IsStale(time_since_heartbeat)
             THEN [events |-> log_security_event(events, "call_stale_detected",
                                [call_id |-> call_id,
                                 time_since_heartbeat |-> time_since_heartbeat]),
                   ret |-> [status |-> "stale",
                            time_since_heartbeat |-> time_since_heartbeat]]
             ELSE [events |-> events,
                   ret |-> [status |-> "healthy",
                            duration |-> now - call_session.created_at,
                            heartbeat_count |-> call_session.heartbeat_count,
                            time_since_heartbeat |-> time_since_heartbeat]]

\* the sweep test that already fires at CleanupAfter seconds
IsAbandoned_inclusive(time_since_heartbeat) ==
    time_since_heartbeat >= CleanupAfter

\* if time_since_heartbeat > 60
IsAbandoned(time_since_heartbeat) == time_since_heartbeat > CleanupAfter

\* ---- cleanup_stale_calls, as [calls, events]: the stale call ids are
\* collected in the order of active_calls, then each is ended
RECURSIVE EndEach(_, _, _)
EndEach(calls, events, stale_calls) ==
    IF stale_calls = <<>>
    THEN [calls |-> calls, events |-> events]
    ELSE LET r == end_call_session(calls, events, Head(stale_calls),
                                   "stale_cleanup")
         IN  EndEach(r.calls, r.events, Tail(stale_calls))

cleanup_stale_calls(calls, events) ==
    LET stale == SelectSeq(calls,
                    LAMBDA s : IsAbandoned(now - s.last_heartbeat))
        stale_calls == [i \in 1..Len(stale) |-> stale[i].call_id]
    IN  EndEach(calls, events, stale_calls)

NoOp == [op |-> "none", args |-> <<>>, ret |-> <<>>]

\* ------------------------------------------------- message endpoint
MAX_FILE_SIZE == 25 * 1024 * 1024

Uploads == 1..MsgUploads

\* the columns of models.Message (created_at, set by the server, left out)
MessageColumns ==
    {"id", "content", "sender_id", "receiver_id", "message_type", "media_url",
     "is_read"}

\* message.name = value on an ORM object: any attribute can be set
setattr(obj, name, value) ==
    [a \in DOMAIN obj \cup {name} |-> IF a = name THEN value ELSE obj[a]]

\* the row that a flush writes for an ORM object: its mapped columns
db_row(obj) == [a \in DOMAIN obj \cap MessageColumns |-> obj[a]]

\* models.Message(content=..., sender_id=..., receiver_id=...) with the
\* column defaults
models_Message(content, sender_id, receiver_id) ==
    [id |-> 0, content |-> content, sender_id |-> sender_id,
     receiver_id |-> receiver_id, message_type |-> "text",
     media_url |-> NoValue, is_read |-> FALSE]

\* db.add(message); db.commit(); db.refresh(message), as [table, message]
db_insert(table, message) ==
    LET obj == setattr(message, "id", Len(table) + 1)
    IN  [table |-> Append(table, db_row(obj)), message |-> obj]

\* db.commit(); db.refresh(message) for a loaded object
db_update(table, message) ==
    [table EXCEPT ![message.id] = db_row(message)]

\* db.query(models.Message).filter(models.Message.id == message_id).first()
db_get(table, message_id) == table[message_id]

\* stored content: a Fernet token of the text, or the file name in the clear
Token(text) == [token |-> TRUE, text |-> text]
Clear(text) == [token |-> FALSE, text |-> text]
encrypt_message_content(text) == Token(text)
\* decrypt_message: what is no token comes back as it is
decrypt_message_content(stored) == Clear(stored.text)

\* MessageResponse(id=..., content=decrypt_message_content(...), ...)
\* .model_dump(): the fields of the schema
MessageResponse(message) ==
    [id |-> message.id, content |-> decrypt_message_content(message.content),
     sender_id |-> message.sender_id, receiver_id |-> message.receiver_id,
     message_type |-> message.message_type, media_url |-> message.media_url,
     is_read |-> message.is_read]

\* MessageResponse.from_orm(message).model_dump(): content as it is stored
MessageResponse_from_orm(message) ==
    [id |-> message.id, content |-> message.content,
     sender_id |-> message.sender_id, receiver_id |-> message.receiver_id,
     message_type |-> message.message_type, media_url |-> message.media_url,
     is_read |-> message.is_read]

\* upload_file_to_cloudinary: the media type by the extension of the name
FileNames == {"photo.png", "notes.txt"}
detected_type(filename) == IF filename = "photo.png" THEN "image" ELSE "file"
secure_url(filename) == "https://res/" \o filename

NoMessage == [id |-> 0]

\* a request: pc, the form fields, the ORM object in hand, the sends done at
\* this pc, and what the upload and the commits of the task did
IdleUpload ==
    [pc |-> "idle", sender_id |-> 0, receiver_id |-> 0, filename |-> "",
     content |-> NoValue, message |-> NoMessage, message_id |-> 0,
     step |-> 0, upload |-> "", commit |-> "", recovery |-> ""]

\* the registry and the pushes after manager.send_json_to_user(payload, to)
\* called for request r
Push(conns, log, payload, to, r) ==
    LET s == send_json_to_user(conns, payload, to, 0)
        id == IF "data" \in DOMAIN payload THEN payload.data.id ELSE 0
    IN  [conns |-> s.conns, send |-> s.log,
         pushes |-> Append(log, [type |-> payload.type, to |-> to, id |-> id,
                                 request |-> r, ok |-> s.log.ok])]

\* the messages endpoint before any request
InitMessages ==
    /\ messages = <<>>
    /\ temp_media = {}
    /\ uploads = [r \in Uploads |-> IdleUpload]
    /\ pushes = <<>>
    /\ friend_requests = {}

\* ------------------------------------------------------------------- Init
\* the realtime layer after construction: no connection
InitRealtime ==
    /\ active_connections = <<>>
    /\ pc = [c \in Conns |-> "new"]
    /\ conn_user = [c \in Conns |-> NoUser]
    /\ token = [c \in Conns |-> NoToken]
    /\ closeCode = [c \in Conns |-> 0]
    /\ open = [c \in Conns |-> FALSE]
    /\ snap = [c \in Conns |-> <<>>]
    /\ idx = [c \in Conns |-> 0]
    /\ bpayload = [c \in Conns |-> Blank]
    /\ pending = [c \in Conns |-> Blank]
    /\ nconn = 0
    /\ nframes = 0
    /\ lastSend = NoSend
    /\ lastRecv = NoRecv
    /\ registered = {}
    /\ replaced = {}
    /\ teardown = [c \in Conns |-> "none"]

\* CallSecurityManager.__init__, at time 0
InitManager ==
    /\ active_calls = <<>>
    /\ security_events = <<>>
    /\ ncalls = 0
    /\ now = 0
    /\ sealed = {}
    /\ lastOp = NoOp

Init ==
    /\ InitRealtime
    /\ InitMessages
    /\ InitManager
    /\ blocks = {}
    /\ friendships = {}

\* ---------------------------------------------------------------- actions
\* user_websocket_endpoint up to "await websocket.accept()": the token is
\* checked, then the path user id; a rejected socket is closed with 1008.
\* (user ids are interchangeable: a connection is opened for a user id seen
\* before or for the lowest unused one)
Open(c, limit, attempts) ==
    /\ nconn < limit
    /\ c = nconn + 1
    /\ pc[c] = "new"
    /\ \E a \in attempts :
        /\ \A u \in 1..(a[1] - 1) : \E k \in 1..nconn : conn_user[k] = u
        /\ LET path == a[1]
               tok == a[2]
               auth == get_current_user_ws(tok)
               accepted == auth.user # NoUser /\ auth.user = path
           IN
            /\ conn_user' = [conn_user EXCEPT ![c] = path]
            /\ token' = [token EXCEPT ![c] = tok]
            /\ closeCode' = [closeCode EXCEPT ![c] =
                    IF auth.user = NoUser THEN auth.close
                    ELSE IF auth.user # path THEN WS_1008_POLICY_VIOLATION
                    ELSE 0]
            /\ pc' = [pc EXCEPT ![c] = IF accepted THEN "accepting" ELSE "closed"]
            /\ open' = [open EXCEPT ![c] = accepted]
    /\ nconn' = nconn + 1
    /\ nframes' = nframes
    /\ lastSend' = NoSend
    /\ lastRecv' = NoRecv
    /\ UNCHANGED <<active_connections, snap, idx, bpayload, pending, registered,
                   replaced, teardown>>
    /\ UNCHANGED <<mgr_vars, msg_vars>>

\* The start of broadcast_to_friends from registry conns: the snapshot is
\* taken and the first send_json is attempted before the coroutine suspends.
\* [conns, snap, idx, log]
BroadcastStart(conns, self, payload, src) ==
    LET s == Snapshot(conns, self)
    IN  IF s = <<>>
        THEN [conns |-> conns, snap |-> s, idx |-> 0, log |-> NoSend]
        ELSE LET r == BroadcastOne(conns, payload, s[1], src)
             IN  [conns |-> r.conns, snap |-> s, idx |-> 1, log |-> r.log]

\* accept() has returned: manager.connect, then the online broadcast starts
Register(c) ==
    /\ pc[c] = "accepting"
    /\ LET u == conn_user[c]
           old == Lookup(active_connections, u)
           b == BroadcastStart(connect(active_connections, c, u), u,
                               StatusPayload("online", u), c)
       IN  /\ active_connections' = b.conns
           /\ replaced' = IF old # NoWs /\ old # c THEN replaced \cup {old}
                          ELSE replaced
           /\ snap' = [snap EXCEPT ![c] = b.snap]
           /\ idx' = [idx EXCEPT ![c] = b.idx]
           /\ bpayload' = [bpayload EXCEPT ![c] =
                   IF b.snap = <<>> THEN Blank ELSE StatusPayload("online", u)]
           /\ pc' = [pc EXCEPT ![c] = IF b.snap = <<>> THEN "recv" ELSE "online"]
           /\ lastSend' = b.log
    /\ registered' = registered \cup {c}
    /\ lastRecv' = NoRecv
    /\ UNCHANGED <<conn_user, token, closeCode, open, pending, nconn, nframes,
                   teardown>>
    /\ UNCHANGED <<mgr_vars, msg_vars>>

\* a suspended broadcast resumes and attempts its next send_json
BroadcastNext(c) ==
    /\ pc[c] \in {"online", "offline"}
    /\ idx[c] < Len(snap[c])
    /\ LET r == BroadcastOne(active_connections, bpayload[c],
                             snap[c][idx[c] + 1], c)
       IN  /\ active_connections' = r.conns
           /\ lastSend' = r.log
    /\ idx' = [idx EXCEPT ![c] = idx[c] + 1]
    /\ lastRecv' = NoRecv
    /\ UNCHANGED <<pc, conn_user, token, closeCode, open, snap, bpayload,
                   pending, nconn, nframes, registered, replaced, teardown>>
    /\ UNCHANGED <<mgr_vars, msg_vars>>

\* the last send_json of a broadcast has returned: the online broadcast falls
\* into the receive loop, the offline broadcast ends the handler
BroadcastDone(c) ==
    /\ pc[c] \in {"online", "offline"}
    /\ idx[c] = Len(snap[c])
    /\ pc' = [pc EXCEPT ![c] = IF pc[c] = "online" THEN "recv" ELSE "closed"]
    /\ teardown' = [teardown EXCEPT ![c] =
            IF pc[c] = "offline" THEN "complete" ELSE teardown[c]]
    /\ open' = [open EXCEPT ![c] = IF pc[c] = "offline" THEN FALSE ELSE open[c]]
    /\ snap' = [snap EXCEPT ![c] = <<>>]
    /\ idx' = [idx EXCEPT ![c] = 0]
    /\ bpayload' = [bpayload EXCEPT ![c] = Blank]
    /\ lastSend' = NoSend
    /\ lastRecv' = NoRecv
    /\ UNCHANGED <<active_connections, conn_user, token, closeCode,
                   pending, nconn, nframes, registered, replaced>>
    /\ UNCHANGED <<mgr_vars, msg_vars>>


\* The finally block of the handler: manager.disconnect(user_id), then the
\* offline broadcast starts.  The handler returns when the broadcast is over.
FinallyBlock(c) ==
    LET u == conn_user[c]
        b == BroadcastStart(disconnect(active_connections, u), u,
                            StatusPayload("offline", u), c)
        over == b.snap = <<>>
    IN  /\ active_connections' = b.conns
        /\ snap' = [snap EXCEPT ![c] = b.snap]
        /\ idx' = [idx EXCEPT ![c] = b.idx]
        /\ bpayload' = [bpayload EXCEPT ![c] =
                IF over THEN Blank ELSE StatusPayload("offline", u)]
        /\ pc' = [pc EXCEPT ![c] = IF over THEN "closed" ELSE "offline"]
        /\ teardown' = [teardown EXCEPT ![c] =
                IF over THEN "complete" ELSE "running"]
        /\ open' = [open EXCEPT ![c] = IF over THEN FALSE ELSE open[c]]
        /\ pending' = [pending EXCEPT ![c] = Blank]
        /\ lastSend' = b.log

\* receive_json returns frame f and the if/elif chain runs up to its first
\* await (or raises, or falls through to the next receive_json)
Receive(c, frames, limit) ==
    /\ pc[c] = "recv"
    /\ open[c]
    /\ nframes < limit
    /\ nframes' = nframes + 1
    /\ \E f \in frames :
        /\ lastRecv' = [src |-> c, frame |-> f]
        /\ LET d == Dispatch(f, conn_user[c])
               r == send_json_to_user(active_connections, d.payload, d.to, c)
           IN  CASE d.kind = "raise" ->
                        FinallyBlock(c)
                 [] d.kind = "ignore" ->
                        /\ lastSend' = NoSend
                        /\ UNCHANGED <<active_connections, pc, open, snap, idx,
                                       bpayload, pending, teardown>>
                 [] d.kind = "forward" ->
                        /\ active_connections' = r.conns
                        /\ lastSend' = r.log
                        /\ UNCHANGED <<pc, open, snap, idx, bpayload, pending,
                                       teardown>>
                 [] d.kind = "message" ->
                        /\ active_connections' = r.conns
                        /\ lastSend' = r.log
                        /\ pc' = [pc EXCEPT ![c] = "echo"]
                        /\ pending' = [pending EXCEPT ![c] = d.payload]
                        /\ UNCHANGED <<open, snap, idx, bpayload, teardown>>
    /\ UNCHANGED <<conn_user, token, closeCode, nconn, registered, replaced>>
    /\ UNCHANGED <<mgr_vars, msg_vars>>

\* the second send of a "message" frame: the echo to the sender's user id
Echo(c) ==
    /\ pc[c] = "echo"
    /\ LET r == send_json_to_user(active_connections, pending[c],
                                  conn_user[c], c)
       IN  /\ active_connections' = r.conns
           /\ lastSend' = r.log
    /\ pc' = [pc EXCEPT ![c] = "recv"]
    /\ pending' = [pending EXCEPT ![c] = Blank]
    /\ lastRecv' = NoRecv
    /\ UNCHANGED <<conn_user, token, closeCode, open, snap, idx, bpayload,
                   nconn, nframes, registered, replaced, teardown>>
    /\ UNCHANGED <<mgr_vars, msg_vars>>

\* the client goes away: writes to the socket fail from now on
Drop(c) ==
    /\ pc[c] \in {"online", "recv", "echo"}
    /\ open[c]
    /\ open' = [open EXCEPT ![c] = FALSE]
    /\ lastSend' = NoSend
    /\ lastRecv' = NoRecv
    /\ UNCHANGED <<active_connections, pc, conn_user, token, closeCode,
                   snap, idx, bpayload, pending, nconn, nframes, registered, replaced,
                   teardown>>
    /\ UNCHANGED <<mgr_vars, msg_vars>>

\* receive_json raises WebSocketDisconnect
RecvDisconnect(c) ==
    /\ pc[c] = "recv"
    /\ ~open[c]
    /\ FinallyBlock(c)
    /\ lastRecv' = NoRecv
    /\ UNCHANGED <<conn_user, token, closeCode, nconn, nframes, registered, replaced>>
    /\ UNCHANGED <<mgr_vars, msg_vars>>

\* The task is cancelled while suspended in the online broadcast, which is
\* before the try: CancelledError leaves the handler, no finally block runs.
CancelBeforeTry(c) ==
    /\ pc[c] = "online"
    /\ pc' = [pc EXCEPT ![c] = "closed"]
    /\ open' = [open EXCEPT ![c] = FALSE]
    /\ snap' = [snap EXCEPT ![c] = <<>>]
    /\ idx' = [idx EXCEPT ![c] = 0]
    /\ bpayload' = [bpayload EXCEPT ![c] = Blank]
    /\ lastSend' = NoSend
    /\ lastRecv' = NoRecv
    /\ UNCHANGED <<active_connections, conn_user, token, closeCode,
                   pending, nconn, nframes, registered, replaced, teardown>>
    /\ UNCHANGED <<mgr_vars, msg_vars>>

\* The task is cancelled inside the try (in receive_json or in a send of the
\* dispatch): "except Exception" does not catch it, the finally block runs.
CancelInLoop(c) ==
    /\ pc[c] \in {"recv", "echo"}
    /\ FinallyBlock(c)
    /\ lastRecv' = NoRecv
    /\ UNCHANGED <<conn_user, token, closeCode, nconn, nframes, registered, replaced>>
    /\ UNCHANGED <<mgr_vars, msg_vars>>

\* The task is cancelled while suspended in the offline broadcast.
CancelInFinally(c) ==
    /\ pc[c] = "offline"
    /\ pc' = [pc EXCEPT ![c] = "closed"]
    /\ teardown' = [teardown EXCEPT ![c] = "interrupted"]
    /\ open' = [open EXCEPT ![c] = FALSE]
    /\ snap' = [snap EXCEPT ![c] = <<>>]
    /\ idx' = [idx EXCEPT ![c] = 0]
    /\ bpayload' = [bpayload EXCEPT ![c] = Blank]
    /\ lastSend' = NoSend
    /\ lastRecv' = NoRecv
    /\ UNCHANGED <<active_connections, conn_user, token, closeCode,
                   pending, nconn, nframes, registered, replaced>>
    /\ UNCHANGED <<mgr_vars, msg_vars>>

\* ------------------------------------------- the anonymous endpoint /ws
\* the text frames anonymous clients send
Texts == {"hello", "{}"}

\* a text frame as it is received and as send_text writes it
TextFrame(data) == [NullFrame EXCEPT !.type = "text", !.content = data]

TextPayload(data) == [Blank EXCEPT !.type = "text", !.content = data]

\* one "await client.send_text(data)" of websocket_endpoint's for loop: the
\* write succeeds, or it raises and the exception leaves both loops
send_text(client, data, src) ==
    [via |-> "text", src |-> src, user |-> NoUser, ws |-> client,
     payload |-> TextPayload(data), ok |-> open[client], ret |-> "None",
     raised |-> ~open[client]]

\* websocket_endpoint: "await websocket.accept()", no check of any kind;
\* the socket is put into no collection
OpenAnon(c, limit) ==
    /\ nconn < limit
    /\ c = nconn + 1
    /\ pc[c] = "new"
    /\ pc' = [pc EXCEPT ![c] = "anon"]
    /\ open' = [open EXCEPT ![c] = TRUE]
    /\ nconn' = nconn + 1
    /\ lastSend' = NoSend
    /\ lastRecv' = NoRecv
    /\ UNCHANGED <<active_connections, conn_user, token, closeCode, snap, idx,
                   bpayload, pending, nframes, registered, replaced, teardown>>
    /\ UNCHANGED <<mgr_vars, msg_vars>>

\* the for loop at position i of its list: the next send_text is attempted,
\* or the list is exhausted and the handler awaits receive_text again
AnonLoop(c, clients, i, data) ==
    IF i = Len(clients)
    THEN /\ pc' = [pc EXCEPT ![c] = "anon"]
         /\ snap' = [snap EXCEPT ![c] = <<>>]
         /\ idx' = [idx EXCEPT ![c] = 0]
         /\ bpayload' = [bpayload EXCEPT ![c] = Blank]
         /\ lastSend' = NoSend
         /\ open' = open
    ELSE LET log == send_text(clients[i + 1].ws, data, c)
         IN  /\ lastSend' = log
             /\ pc' = [pc EXCEPT ![c] =
                     IF log.raised THEN "closed" ELSE "anon_send"]
             /\ open' = [open EXCEPT ![c] = ~log.raised]
             /\ snap' = [snap EXCEPT ![c] =
                     IF log.raised THEN <<>> ELSE clients]
             /\ idx' = [idx EXCEPT ![c] = IF log.raised THEN 0 ELSE i + 1]
             /\ bpayload' = [bpayload EXCEPT ![c] =
                     IF log.raised THEN Blank ELSE TextPayload(data)]

\* receive_text returns data: the list of manager.active_connections.values()
\* is taken and the first send_text is attempted
AnonReceive(c, texts, limit) ==
    /\ pc[c] = "anon"
    /\ open[c]
    /\ nframes < limit
    /\ nframes' = nframes + 1
    /\ \E data \in texts :
        /\ lastRecv' = [src |-> c, frame |-> TextFrame(data)]
        /\ AnonLoop(c, active_connections, 0, data)
    /\ UNCHANGED <<active_connections, conn_user, token, closeCode, pending,
                   nconn, registered, replaced, teardown>>
    /\ UNCHANGED <<mgr_vars, msg_vars>>

\* a send_text has returned: the for loop goes on
AnonNext(c) ==
    /\ pc[c] = "anon_send"
    /\ AnonLoop(c, snap[c], idx[c], bpayload[c].content)
    /\ lastRecv' = NoRecv
    /\ UNCHANGED <<active_connections, conn_user, token, closeCode, pending,
                   nconn, nframes, registered, replaced, teardown>>
    /\ UNCHANGED <<mgr_vars, msg_vars>>

\* the anonymous client goes away and receive_text raises
\* WebSocketDisconnect, which ends the handler
AnonDisconnect(c) ==
    /\ pc[c] = "anon"
    /\ pc' = [pc EXCEPT ![c] = "closed"]
    /\ open' = [open EXCEPT ![c] = FALSE]
    /\ lastSend' = NoSend
    /\ lastRecv' = NoRecv
    /\ UNCHANGED <<active_connections, conn_user, token, closeCode, snap, idx,
                   bpayload, pending, nconn, nframes, registered, replaced,
                   teardown>>
    /\ UNCHANGED <<mgr_vars, msg_vars>>

\* ------------------------------------------------ call security: actions
\* the users that place calls; user NumUsers is a party to none
Callers == 1..(NumUsers - 1)

CountEvents(events, types) ==
    Cardinality({i \in 1..Len(events) : events[i].type \in types})

\* a call id no session was created under
UnknownCallId == generate_call_id(0)

KnownCallIds == {active_calls[i].call_id : i \in 1..Len(active_calls)}

\* create_call_session(caller_id, receiver_id, call_type)
CreateCall(callers, receivers, limit) ==
    /\ ncalls < limit
    /\ \E caller_id \in callers :
       \E receiver_id \in receivers \ {caller_id} :
        LET r == create_call_session(active_calls, security_events,
                                     ncalls + 1, caller_id, receiver_id,
                                     "audio")
        IN  /\ active_calls' = r.calls
            /\ security_events' = r.events
            /\ lastOp' = [op |-> "create_call_session",
                          args |-> [caller_id |-> caller_id,
                                    receiver_id |-> receiver_id],
                          ret |-> r.ret]
    /\ ncalls' = ncalls + 1
    /\ UNCHANGED <<now, blocks, friendships, sealed>>
    /\ UNCHANGED <<ws_vars, msg_vars>>

\* end_call_session(call_id)
EndCall(limit) ==
    /\ CountEvents(security_events, {"call_session_ended"}) < limit
    /\ \E call_id \in KnownCallIds \cup {UnknownCallId} :
        LET r == end_call_session(active_calls, security_events, call_id,
                                  "normal")
        IN  /\ active_calls' = r.calls
            /\ security_events' = r.events
            /\ lastOp' = [op |-> "end_call_session",
                          args |-> [call_id |-> call_id], ret |-> r.ret]
    /\ UNCHANGED <<ncalls, now, blocks, friendships, sealed>>
    /\ UNCHANGED <<ws_vars, msg_vars>>

\* validate_call_permissions(db, caller_id, receiver_id)
ValidatePermissions(limit) ==
    /\ CountEvents(security_events,
            {"call_blocked", "call_non_friend", "call_rate_limited"}) < limit
    /\ \E caller_id \in Callers :
       \E receiver_id \in Callers \ {caller_id} :
        LET r == validate_call_permissions(active_calls, security_events,
                        blocks, friendships, caller_id, receiver_id)
        IN  /\ security_events' = r.events
            /\ lastOp' = [op |-> "validate_call_permissions",
                          args |-> [caller_id |-> caller_id,
                                    receiver_id |-> receiver_id],
                          ret |-> [ok |-> r.ok, text |-> r.text]]
    /\ UNCHANGED <<active_calls, ncalls, now, blocks, friendships, sealed>>
    /\ UNCHANGED <<ws_vars, msg_vars>>

\* get_active_calls_for_user(user_id)
GetActiveCalls ==
    /\ \E user_id \in Users :
        lastOp' = [op |-> "get_active_calls_for_user",
                   args |-> [user_id |-> user_id],
                   ret |-> get_active_calls_for_user(active_calls, user_id)]
    /\ UNCHANGED <<active_calls, security_events, ncalls, now, blocks,
                   friendships, sealed>>
    /\ UNCHANGED <<ws_vars, msg_vars>>

\* the clock advances
Tick(steps, limit) ==
    /\ \E d \in steps :
        /\ now + d <= limit
        /\ now' = now + d
    /\ lastOp' = NoOp
    /\ UNCHANGED <<active_calls, security_events, ncalls, blocks, friendships,
                   sealed>>
    /\ UNCHANGED <<ws_vars, msg_vars>>

\* ---- call id strings: up to MaxPrefix free characters, then a filler
\* repeated up to a length near CallIdLen, then a last character
IdChars == {"0", "9", "a", "F", "g", "x", "X", "_", " ", "+", "-"}

ShortStrings == UNION {[1..k -> IdChars] : k \in 0..MaxPrefix}

Padded(pre, fill, suf, n) == pre \o Rep(fill, n - Len(pre) - Len(suf)) \o suf

IdLengths == (CallIdLen - IdSlack)..(CallIdLen + IdSlack)

CallIdStrings ==
    ShortStrings \cup
    {Padded(pre, fill, suf, n) :
        pre \in ShortStrings, fill \in {"a", "0"},
        suf \in {<<>>, <<" ">>, <<"_">>, <<"g">>}, n \in IdLengths}

\* a call of is_valid_call_id(call_id) on a str that has not returned yet
PendingCallId(call_id) ==
    [op |-> "call is_valid_call_id", args |-> [call_id |-> call_id],
     ret |-> <<>>]

\* is_valid_call_id(call_id) returns
IsValidCallId ==
    /\ lastOp.op = "call is_valid_call_id"
    /\ lastOp' = [op |-> "is_valid_call_id", args |-> lastOp.args,
                  ret |-> is_valid_call_id(lastOp.args.call_id)]
    /\ UNCHANGED <<active_calls, security_events, ncalls, now, blocks,
                   friendships, sealed>>
    /\ UNCHANGED <<ws_vars, msg_vars>>

\* ---- the messages handed to validate_signaling_message
MessageAges ==
    {-1, 0} \cup ((ReplayLimitMs - AgeSlack)..(ReplayLimitMs + AgeSlack))

MessageStrings ==
    {<<>>} \cup
    {Padded(pre, "a", <<>>, n) :
        pre \in {<<>>, <<"+">>, <<"g">>}, n \in IdLengths}

Messages ==
    {Message("webrtc-offer", ts, cid) :
        ts \in {NoTimestamp} \cup {Timestamp(now * 1000 - a) : a \in MessageAges},
        cid \in {NoCallId, IntCallId}
                \cup {StrCallId(x) : x \in KnownCallIds \cup {UnknownCallId}
                                            \cup MessageStrings}}

\* validate_signaling_message(message, user_id)
ValidateMessage(limit) ==
    /\ CountEvents(security_events,
            {"replay_attack_detected", "invalid_call_id",
             "unauthorized_call_access"}) < limit
    /\ \E message \in Messages, user_id \in Users :
        LET r == validate_signaling_message(active_calls, security_events,
                                            message, user_id)
        IN  /\ security_events' = r.events
            /\ lastOp' = [op |-> "validate_signaling_message",
                          args |-> [message |-> message, user_id |-> user_id],
                          ret |-> [ok |-> r.ok, text |-> r.text,
                                   raised |-> r.raised]]
    /\ UNCHANGED <<active_calls, ncalls, now, blocks, friendships, sealed>>
    /\ UNCHANGED <<ws_vars, msg_vars>>

\* ---- the dicts handed to encrypt_signaling_data
SignalData ==
    {<<>>,
     <<Item(PyObj("str", "sdp"), PyObj("str", "v=0"))>>,
     <<Item(PyObj("str", "type"), PyObj("str", "offer")),
       Item(PyObj("str", "ports"), PyObj("list", "1, 2")),
       Item(PyObj("str", "label"), PyObj("none", "None"))>>,
     <<Item(PyObj("int", "1"), PyObj("str", "a"))>>,
     <<Item(PyObj("int", "1"), PyObj("str", "a")),
       Item(PyObj("str", "1"), PyObj("str", "b"))>>,
     <<Item(PyObj("none", "None"), PyObj("int", "0"))>>,
     <<Item(PyObj("bool", "True"), PyObj("int", "0"))>>,
     <<Item(PyObj("str", "range"), PyObj("tuple", "1, 2"))>>,
     <<Item(PyObj("str", "blob"), PyObj("bytes", "x"))>>}

\* encrypt_signaling_data(call_id, data); the envelope goes to the caller
Encrypt(limit, fails) ==
    /\ Cardinality(sealed) < limit
    /\ CountEvents(security_events,
                   {"encryption_failed", "decryption_failed"}) < fails
    /\ \E call_id \in KnownCallIds \cup {UnknownCallId} :
       \E data \in SignalData, nonce \in 1..NumNonces :
        LET r == encrypt_signaling_data(active_calls, security_events,
                                        call_id, data, nonce)
        IN  /\ security_events' = r.events
            /\ lastOp' = [op |-> "encrypt_signaling_data",
                          args |-> [call_id |-> call_id, data |-> data],
                          ret |-> r.ret]
            /\ sealed' = IF r.ret.none THEN sealed
                         ELSE sealed \cup
                                {[call_id |-> call_id, data |-> data,
                                  encrypted_data |-> r.ret.encrypted_data,
                                  nonce |-> r.ret.nonce]}
    /\ UNCHANGED <<active_calls, ncalls, now, blocks, friendships>>
    /\ UNCHANGED <<ws_vars, msg_vars>>

\* decrypt_signaling_data(call_id, encrypted_data, nonce) on an envelope that
\* encrypt_signaling_data has returned, under its call id or another one
Decrypt(fails) ==
    /\ CountEvents(security_events,
                   {"encryption_failed", "decryption_failed"}) < fails
    /\ \E e \in sealed :
       \E call_id \in KnownCallIds \cup {e.call_id} :
        LET r == decrypt_signaling_data(active_calls, security_events,
                                        call_id, e.encrypted_data, e.nonce)
        IN  /\ security_events' = r.events
            /\ lastOp' = [op |-> "decrypt_signaling_data",
                          args |-> [call_id |-> call_id, sealed |-> e],
                          ret |-> r.ret]
    /\ UNCHANGED <<active_calls, ncalls, now, blocks, friendships, sealed>>
    /\ UNCHANGED <<ws_vars, msg_vars>>

\* ---- heartbeat, health check and sweep
\* every call id drawn from secrets so far, and one that never was
DrawnCallIds == {generate_call_id(k) : k \in 0..ncalls}

\* the clock readings around the two thresholds, for sessions whose last
\* heartbeat was at 0 or at one of these readings
HealthTimes ==
    UNION {(t - HealthSlack + 1)..(t + HealthSlack) :
                t \in {StaleAfter, CleanupAfter}}

\* the clock advances to a later reading of times
ClockTo(times) ==
    /\ \E t \in times :
        /\ t > now
        /\ now' = t
    /\ lastOp' = NoOp
    /\ UNCHANGED <<active_calls, security_events, ncalls, blocks, friendships,
                   sealed>>
    /\ UNCHANGED <<ws_vars, msg_vars>>

\* end_call_session(call_id) on any call id drawn so far, a session that was
\* ended or swept before included
EndDrawn(limit) ==
    /\ \E call_id \in DrawnCallIds :
        /\ HasCall(active_calls, call_id)
                => CountEvents(security_events, {"call_session_ended"}) < limit
        /\ LET r == end_call_session(active_calls, security_events, call_id,
                                     "normal")
           IN  /\ active_calls' = r.calls
               /\ security_events' = r.events
               /\ lastOp' = [op |-> "end_call_session",
                             args |-> [call_id |-> call_id], ret |-> r.ret]
    /\ UNCHANGED <<ncalls, now, blocks, friendships, sealed>>
    /\ UNCHANGED <<ws_vars, msg_vars>>

\* update_call_heartbeat(call_id)
Heartbeat(limit) ==
    /\ \E call_id \in DrawnCallIds :
        /\ HasCall(active_calls, call_id)
                => GetCall(active_calls, call_id).heartbeat_count < limit
        /\ LET r == update_call_heartbeat(active_calls, call_id)
           IN  /\ active_calls' = r.calls
               /\ lastOp' = [op |-> "update_call_heartbeat",
                             args |-> [call_id |-> call_id], ret |-> r.ret]
    /\ UNCHANGED <<security_events, ncalls, now, blocks, friendships, sealed>>
    /\ UNCHANGED <<ws_vars, msg_vars>>

\* check_call_health(call_id)
CheckHealth(limit) ==
    /\ CountEvents(security_events, {"call_stale_detected"}) < limit
    /\ \E call_id \in DrawnCallIds :
        LET r == check_call_health(active_calls, security_events, call_id)
        IN  /\ security_events' = r.events
            /\ lastOp' = [op |-> "check_call_health",
                          args |-> [call_id |-> call_id], ret |-> r.ret]
    /\ UNCHANGED <<active_calls, ncalls, now, blocks, friendships, sealed>>
    /\ UNCHANGED <<ws_vars, msg_vars>>

\* cleanup_stale_calls()
Cleanup ==
    /\ LET r == cleanup_stale_calls(active_calls, security_events)
       IN  /\ active_calls' = r.calls
           /\ security_events' = r.events
    /\ lastOp' = [op |-> "cleanup_stale_calls", args |-> <<>>, ret |-> <<>>]
    /\ UNCHANGED <<ncalls, now, blocks, friendships, sealed>>
    /\ UNCHANGED <<ws_vars, msg_vars>>

\* ------------------------------------------------ message endpoint: actions
\* the variables of the realtime layer that a send from the endpoint leaves
\* alone
handler_vars ==
    <<pc, conn_user, token, closeCode, open, snap, idx, bpayload, pending,
      nconn, nframes, registered, replaced, teardown>>

\* send_message with a file, up to the end of the loop that buffers the file
\* in TEMP_MEDIA_DIR: 403 for a blocked pair, 413 for a file over
\* MAX_FILE_SIZE (the part written is removed).  (Requests are numbered in
\* the order they arrive.)
Buffer(r) ==
    /\ uploads[r].pc = "idle"
    /\ \A q \in 1..(r - 1) : uploads[q].pc # "idle"
    /\ \E current_user \in Callers :
       \E receiver_id \in Callers \ {current_user} :
       \E filename \in FileNames, content \in {NoValue, "hello"} :
       \E file_size \in {MAX_FILE_SIZE, MAX_FILE_SIZE + 1} :
        LET u == [uploads[r] EXCEPT !.sender_id = current_user,
                                    !.receiver_id = receiver_id,
                                    !.filename = filename,
                                    !.content = content]
        IN  IF block_query(blocks, current_user, receiver_id)
            THEN /\ uploads' = [uploads EXCEPT ![r] = [u EXCEPT !.pc = "403"]]
                 /\ UNCHANGED temp_media
            ELSE IF file_size > MAX_FILE_SIZE
            THEN /\ uploads' = [uploads EXCEPT ![r] = [u EXCEPT !.pc = "413"]]
                 /\ temp_media' = temp_media \ {r}
            ELSE /\ uploads' = [uploads EXCEPT ![r] =
                                    [u EXCEPT !.pc = "buffered"]]
                 /\ temp_media' = temp_media \cup {r}
    /\ UNCHANGED <<messages, pushes>>
    /\ UNCHANGED <<ws_vars, mgr_vars, friend_requests>>

\* send_message from message.status = "uploading" to the first await: the
\* row is committed, the task is added to background_tasks and new_message
\* goes to the sender; or db.commit() raises and the request ends with 500
Persist(r) ==
    /\ uploads[r].pc = "buffered"
    /\ \/ /\ uploads' = [uploads EXCEPT ![r].pc = "500"]
          /\ UNCHANGED <<messages, pushes, active_connections, lastSend,
                         lastRecv>>
       \/ LET u == uploads[r]
              stored == IF u.content = NoValue THEN Clear(u.filename)
                        ELSE encrypt_message_content(u.content)
              m0 == models_Message(stored, u.sender_id, u.receiver_id)
              m1 == setattr(setattr(m0, "status", "uploading"),
                            "message_type", "file")
              ins == db_insert(messages, m1)
              p == Push(active_connections, pushes,
                        [type |-> "new_message",
                         data |-> MessageResponse(ins.message)],
                        u.sender_id, r)
          IN  /\ messages' = ins.table
              /\ uploads' = [uploads EXCEPT ![r] =
                    [u EXCEPT !.pc = "notify", !.message = ins.message,
                              !.message_id = ins.message.id, !.step = 1]]
              /\ pushes' = p.pushes
              /\ active_connections' = p.conns
              /\ lastSend' = p.send
              /\ lastRecv' = NoRecv
    /\ UNCHANGED temp_media
    /\ UNCHANGED handler_vars
    /\ UNCHANGED <<mgr_vars, friend_requests>>

\* the next send of send_message: new_message to the receiver, then
\* conversation_update to the sender and to the receiver
Notify(r) ==
    /\ uploads[r].pc = "notify"
    /\ uploads[r].step \in 1..3
    /\ LET u == uploads[r]
           payload == IF u.step = 1
                      THEN [type |-> "new_message",
                            data |-> MessageResponse(u.message)]
                      ELSE [type |-> "conversation_update"]
           to == IF u.step = 2 THEN u.sender_id ELSE u.receiver_id
           p == Push(active_connections, pushes, payload, to, r)
       IN  /\ pushes' = p.pushes
           /\ active_connections' = p.conns
           /\ lastSend' = p.send
           /\ lastRecv' = NoRecv
           /\ uploads' = [uploads EXCEPT ![r].step = u.step + 1]
    /\ UNCHANGED <<messages, temp_media>>
    /\ UNCHANGED handler_vars
    /\ UNCHANGED <<mgr_vars, friend_requests>>

\* send_message returns its response; the background task starts and waits
\* for upload_file_to_cloudinary
Respond(r) ==
    /\ uploads[r].pc = "notify"
    /\ uploads[r].step = 4
    /\ uploads' = [uploads EXCEPT ![r].pc = "uploading", ![r].step = 0,
                                  ![r].message = NoMessage]
    /\ UNCHANGED <<messages, temp_media, pushes>>
    /\ UNCHANGED <<ws_vars, mgr_vars, friend_requests>>

\* os.remove(temp_file_path) if the file exists
remove_temp(files, r) == files \ {r}

\* upload_and_finalize_message once the upload has returned or raised, up to
\* its next await.  upload: the upload succeeds or raises; commit: the commit
\* of the try block succeeds or raises; recovery: the query and commit of
\* the except block succeed or raise (the exception then leaves the task
\* through the finally block)
Uploaded(r) ==
    /\ uploads[r].pc = "uploading"
    /\ \E upload \in {"ok", "raised"}, commit \in {"ok", "raised", ""} :
       \E recovery \in {"ok", "raised", ""} :
        LET u == [uploads[r] EXCEPT !.upload = upload, !.commit = commit,
                                    !.recovery = recovery]
            loaded == db_get(messages, u.message_id)
            sent == setattr(setattr(setattr(loaded,
                        "media_url", secure_url(u.filename)),
                        "message_type", detected_type(u.filename)),
                        "status", "sent")
            failed == setattr(loaded, "status", "failed")
            ok == Push(active_connections, pushes,
                       [type |-> "message_updated",
                        data |-> MessageResponse(sent)], u.sender_id, r)
            ko == Push(active_connections, pushes,
                       [type |-> "message_updated",
                        data |-> MessageResponse_from_orm(failed)],
                       u.sender_id, r)
        IN  /\ (upload = "ok") = (commit # "")
            /\ (upload = "raised" \/ commit = "raised") = (recovery # "")
            /\ CASE commit = "ok" ->
                        /\ messages' = db_update(messages, sent)
                        /\ uploads' = [uploads EXCEPT ![r] =
                                [u EXCEPT !.pc = "updated", !.step = 1,
                                          !.message = sent]]
                        /\ pushes' = ok.pushes
                        /\ active_connections' = ok.conns
                        /\ lastSend' = ok.send
                        /\ lastRecv' = NoRecv
                        /\ UNCHANGED temp_media
                 [] recovery = "ok" ->
                        /\ messages' = db_update(messages, failed)
                        /\ uploads' = [uploads EXCEPT ![r] =
                                [u EXCEPT !.pc = "updated", !.step = 1,
                                          !.message = failed]]
                        /\ pushes' = ko.pushes
                        /\ active_connections' = ko.conns
                        /\ lastSend' = ko.send
                        /\ lastRecv' = NoRecv
                        /\ UNCHANGED temp_media
                 [] recovery = "raised" ->
                        /\ uploads' = [uploads EXCEPT ![r] =
                                [u EXCEPT !.pc = "done"]]
                        /\ temp_media' = remove_temp(temp_media, r)
                        /\ UNCHANGED <<messages, pushes, active_connections,
                                       lastSend, lastRecv>>
    /\ UNCHANGED handler_vars
    /\ UNCHANGED <<mgr_vars, friend_requests>>

\* the second message_updated of the task, to the receiver
PushUpdate(r) ==
    /\ uploads[r].pc = "updated"
    /\ uploads[r].step = 1
    /\ LET u == uploads[r]
           data == IF u.message.status = "sent"
                   THEN MessageResponse(u.message)
                   ELSE MessageResponse_from_orm(u.message)
           p == Push(active_connections, pushes,
                     [type |-> "message_updated", data |-> data],
                     u.receiver_id, r)
       IN  /\ pushes' = p.pushes
           /\ active_connections' = p.conns
           /\ lastSend' = p.send
           /\ lastRecv' = NoRecv
           /\ uploads' = [uploads EXCEPT ![r].step = 2]
    /\ UNCHANGED <<messages, temp_media>>
    /\ UNCHANGED handler_vars
    /\ UNCHANGED <<mgr_vars, friend_requests>>

\* the finally block of the task: db.close(), then the buffered file is
\* removed
TaskFinally(r) ==
    /\ uploads[r].pc = "updated"
    /\ uploads[r].step = 2
    /\ uploads' = [uploads EXCEPT ![r].pc = "done"]
    /\ temp_media' = remove_temp(temp_media, r)
    /\ UNCHANGED <<messages, pushes>>
    /\ UNCHANGED <<ws_vars, mgr_vars, friend_requests>>

\* ------------------------------------- blocks and friends: the endpoints
\* the variables the endpoints of block.py and connections.py leave alone
social_frame ==
    <<active_calls, security_events, ncalls, now, sealed, messages,
      temp_media, uploads, pushes>>

\* the rows of friend_requests between users a and b, either way
requests_between(a, b) ==
    {q \in friend_requests :
        \/ q.sender_id = a /\ q.receiver_id = b
        \/ q.sender_id = b /\ q.receiver_id = a}

\* the id the database gives the next row of friend_requests
next_request_id ==
    IF friend_requests = {} THEN 1
    ELSE 1 + CHOOSE i \in {q.id : q \in friend_requests} :
                \A q \in friend_requests : q.id <= i

\* POST /block/: 400 for oneself or an existing block of the same blocker;
\* else the block row is added, the pair's friendship rows and all of its
\* friend requests are deleted
block_user ==
    \E current_user \in Callers, blocked_id \in Callers :
        LET existing_block == <<current_user, blocked_id>> \in blocks
            refused == blocked_id = current_user \/ existing_block
        IN  /\ blocks' = IF refused THEN blocks
                         ELSE blocks \cup {<<current_user, blocked_id>>}
            /\ friendships' = IF refused THEN friendships
                              ELSE friendships \ {<<current_user, blocked_id>>,
                                                  <<blocked_id, current_user>>}
            /\ friend_requests' = IF refused THEN friend_requests
                    ELSE friend_requests
                            \ requests_between(current_user, blocked_id)
            /\ lastOp' = [op |-> "block_user",
                          args |-> [current_user |-> current_user,
                                    user_id |-> blocked_id],
                          ret |-> IF refused THEN 400 ELSE 200]
            /\ UNCHANGED social_frame
            /\ UNCHANGED ws_vars

\* DELETE /block/{user_id}: 404 without a block row of this blocker
unblock_user ==
    \E current_user \in Callers, user_id \in Callers :
        LET block == <<current_user, user_id>> \in blocks
        IN  /\ blocks' = blocks \ {<<current_user, user_id>>}
            /\ lastOp' = [op |-> "unblock_user",
                          args |-> [current_user |-> current_user,
                                    user_id |-> user_id],
                          ret |-> IF block THEN 200 ELSE 404]
            /\ UNCHANGED <<friendships, friend_requests>>
            /\ UNCHANGED social_frame
            /\ UNCHANGED ws_vars

\* POST /connections/request: 400 for oneself, for a friend and for a pair
\* with a pending request; else a pending row is added
send_friend_request ==
    \E current_user \in Callers, receiver_id \in Callers :
        LET is_friend == friendship_query(friendships, current_user, receiver_id)
            existing_request ==
                \E q \in requests_between(current_user, receiver_id) :
                    q.status = "pending"
            refused == receiver_id = current_user \/ is_friend
                       \/ existing_request
        IN  /\ refused \/ next_request_id <= SocialRequests
            /\ friend_requests' = IF refused THEN friend_requests
                    ELSE friend_requests \cup
                            {[id |-> next_request_id,
                              sender_id |-> current_user,
                              receiver_id |-> receiver_id,
                              status |-> "pending"]}
            /\ lastOp' = [op |-> "send_friend_request",
                          args |-> [current_user |-> current_user,
                                    user_id |-> receiver_id],
                          ret |-> IF refused THEN 400 ELSE 201]
            /\ UNCHANGED <<blocks, friendships>>
            /\ UNCHANGED social_frame
            /\ UNCHANGED ws_vars

\* POST /connections/requests/{request_id}/accept: 404 unless the row exists
\* and current_user is its receiver, 400 unless it is pending; else the row
\* becomes accepted and, unless the two are friends, the sender is appended
\* to current_user.friends
accept_friend_request ==
    \E current_user \in Callers, request_id \in 1..SocialRequests :
        LET found == {q \in friend_requests :
                        q.id = request_id /\ q.receiver_id = current_user}
            ret == IF found = {} THEN 404
                   ELSE IF \E q \in found : q.status # "pending" THEN 400
                   ELSE 200
        IN  /\ friend_requests' =
                    IF ret # 200 THEN friend_requests
                    ELSE (friend_requests \ found)
                         \cup {[q EXCEPT !.status = "accepted"] : q \in found}
            /\ friendships' =
                    IF ret # 200 THEN friendships
                    ELSE friendships \cup
                         {<<current_user, q.sender_id>> : q \in
                            {x \in found :
                                ~friendship_query(friendships, current_user,
                                                  x.sender_id)}}
            /\ lastOp' = [op |-> "accept_friend_request",
                          args |-> [current_user |-> current_user,
                                    user_id |-> request_id],
                          ret |-> ret]
            /\ UNCHANGED blocks
            /\ UNCHANGED social_frame
            /\ UNCHANGED ws_vars

\* POST /connections/requests/{request_id}/reject
reject_friend_request ==
    \E current_user \in Callers, request_id \in 1..SocialRequests :
        LET found == {q \in friend_requests :
                        q.id = request_id /\ q.receiver_id = current_user}
            ret == IF found = {} THEN 404
                   ELSE IF \E q \in found : q.status # "pending" THEN 400
                   ELSE 204
        IN  /\ friend_requests' =
                    IF ret # 204 THEN friend_requests
                    ELSE (friend_requests \ found)
                         \cup {[q EXCEPT !.status = "rejected"] : q \in found}
            /\ lastOp' = [op |-> "reject_friend_request",
                          args |-> [current_user |-> current_user,
                                    user_id |-> request_id],
                          ret |-> ret]
            /\ UNCHANGED <<blocks, friendships>>
            /\ UNCHANGED social_frame
            /\ UNCHANGED ws_vars

\* DELETE /connections/friends/{friend_id}: the row of current_user.friends
\* is removed, or else the row of friend.friends; 400 without either
unfriend ==
    \E current_user \in Callers, friend_id \in Callers :
        LET mine == <<current_user, friend_id>> \in friendships
            theirs == <<friend_id, current_user>> \in friendships
        IN  /\ friendships' =
                    IF mine THEN friendships \ {<<current_user, friend_id>>}
                    ELSE IF theirs
                    THEN friendships \ {<<friend_id, current_user>>}
                    ELSE friendships
            /\ lastOp' = [op |-> "unfriend",
                          args |-> [current_user |-> current_user,
                                    user_id |-> friend_id],
                          ret |-> IF mine \/ theirs THEN 204 ELSE 400]
            /\ UNCHANGED <<blocks, friend_requests>>
            /\ UNCHANGED social_frame
            /\ UNCHANGED ws_vars

\* ---- an envelope altered on its way: ciphertext bytes that authenticate
\* under no key, or a nonce that encrypt_signaling_data did not draw
Tampers == {"ciphertext", "nonce"}

Tamper(e, how) ==
    IF how = "ciphertext"
    THEN [e EXCEPT !.encrypted_data =
                        b64encode([b64decode(e.encrypted_data)
                                        EXCEPT !.key = NoKey])]
    ELSE [e EXCEPT !.nonce = b64encode(0)]

\* decrypt_signaling_data(call_id, encrypted_data, nonce) on an altered
\* envelope
DecryptTampered(fails) ==
    /\ CountEvents(security_events,
                   {"encryption_failed", "decryption_failed"}) < fails
    /\ \E e \in sealed, how \in Tampers :
       \E call_id \in KnownCallIds \cup {e.call_id} :
        LET t == Tamper(e, how)
            r == decrypt_signaling_data(active_calls, security_events,
                                        call_id, t.encrypted_data, t.nonce)
        IN  /\ security_events' = r.events
            /\ lastOp' = [op |-> "decrypt_signaling_data of altered",
                          args |-> [call_id |-> call_id, sealed |-> e,
                                    how |-> how],
                          ret |-> r.ret]
    /\ UNCHANGED <<active_calls, ncalls, now, blocks, friendships, sealed>>
    /\ UNCHANGED <<ws_vars, msg_vars>>

\* ---------------------------------------------------------- specifications
\* the steps of handler c other than reading a frame and resuming a broadcast
Lifecycle(c) ==
    \/ Register(c)
    \/ BroadcastDone(c)
    \/ Echo(c)
    \/ Drop(c)
    \/ RecvDisconnect(c)
    \/ CancelBeforeTry(c)
    \/ CancelInLoop(c)
    \/ CancelInFinally(c)

\* Spec: the users connect with their own tokens and send the frames of
\* CoreFrames
Next ==
    \E c \in Conns :
        \/ Open(c, MaxConns, CoreAttempts)
        \/ Lifecycle(c)
        \/ BroadcastNext(c)
        \/ Receive(c, CoreFrames, MaxFrames)

Spec == Init /\ [][Next]_vars

\* SpecDispatch: any token, any frame.  (With DispatchConns = 2 connections a
\* broadcast has at most one target, sent within Register or the finally
\* block; BroadcastNext has nothing to resume.)
NextDispatch ==
    \E c \in Conns :
        \/ Open(c, DispatchConns, AllAttempts)
        \/ Lifecycle(c)
        \/ Receive(c, AllFrames, DispatchFrames)

SpecDispatch == Init /\ [][NextDispatch]_vars

\* SpecRace: connections opening and broadcasting their online status
NextRace ==
    \E c \in Conns :
        \/ Open(c, RaceConns, CoreAttempts)
        \/ Register(c)
        \/ BroadcastNext(c)
        \/ BroadcastDone(c)

SpecRace == Init /\ [][NextRace]_vars

\* SpecSignal: the realtime handlers forwarding call signaling while call
\* sessions are created in the call security manager
SignalingTypes ==
    {"webrtc-offer", "webrtc-answer", "webrtc-ice-candidate", "call-ended"}

SignalingFrames ==
    {f \in AllFrames :
        /\ f.type \in SignalingTypes
        /\ f.data = "absent" /\ f.to_user_id = NoneId
        /\ f.receiver_id \in Users
        /\ f.offer # NoValue}

NextSignal ==
    \/ \E c \in Conns :
        \/ Open(c, SignalConns, CoreAttempts)
        \/ Register(c)
        \/ BroadcastDone(c)
        \/ Receive(c, SignalingFrames, SignalFrames)
    \/ CreateCall(Users, Users, SignalCalls)

SpecSignal == Init /\ [][NextSignal]_vars

\* SpecSocial: the users block, unblock, befriend and unfriend each other
NextSocial ==
    \/ block_user
    \/ unblock_user
    \/ send_friend_request
    \/ accept_friend_request
    \/ reject_friend_request
    \/ unfriend

SpecSocial == Init /\ [][NextSocial]_vars

\* SpecAnon: authenticated and anonymous clients connect, clients go away,
\* and the anonymous clients send text frames
NextAnon ==
    \E c \in Conns :
        \/ Open(c, AnonConns, CoreAttempts)
        \/ OpenAnon(c, AnonConns)
        \/ Register(c)
        \/ BroadcastNext(c)
        \/ BroadcastDone(c)
        \/ Drop(c)
        \/ AnonReceive(c, Texts, AnonFrames)
        \/ AnonNext(c)
        \/ AnonDisconnect(c)

SpecAnon == Init /\ [][NextAnon]_vars

\* SpecPerm: within one rate-limit window user 1 places calls to user 2 and
\* calls are ended, while permissions are checked; the database holds any
\* block rows between the two users, and a friendship row or none
DbRows == {<<a, b>> : a \in Callers, b \in Callers} \ {<<a, a>> : a \in Callers}

InitPerm ==
    /\ InitRealtime
    /\ InitMessages
    /\ InitManager
    /\ blocks \in SUBSET DbRows
    /\ friendships \in {{}, {<<2, 1>>}}

NextPerm ==
    \/ CreateCall({1}, Callers, PermCalls)
    \/ EndCall(PermEnds)
    \/ ValidatePermissions(PermChecks)

SpecPerm == InitPerm /\ [][NextPerm]_vars

\* SpecCallId: is_valid_call_id applied to a string of CallIdStrings
InitCallId ==
    /\ InitRealtime
    /\ InitMessages
    /\ active_calls = <<>> /\ security_events = <<>> /\ ncalls = 0 /\ now = 0
    /\ blocks = {} /\ friendships = {} /\ sealed = {}
    /\ lastOp \in {PendingCallId(call_id) : call_id \in CallIdStrings}

NextCallId == IsValidCallId

SpecCallId == InitCallId /\ [][NextCallId]_vars

\* SpecValidate: signaling messages are validated while call sessions between
\* the users of Callers are created and the clock advances
NextValidate ==
    \/ CreateCall(Callers, Callers, ValCalls)
    \/ ValidateMessage(ValRejects)
    \/ GetActiveCalls
    \/ Tick({1}, ValTime)

SpecValidate == Init /\ [][NextValidate]_vars

\* SpecCrypto: signaling data is sealed and opened while call sessions are
\* created and ended
NextCrypto ==
    \/ CreateCall(Callers, Callers, CryptoCalls)
    \/ EndCall(CryptoEnds)
    \/ Encrypt(CryptoSeals, CryptoFails)
    \/ Decrypt(CryptoFails)
    \/ DecryptTampered(CryptoFails)

SpecCrypto == Init /\ [][NextCrypto]_vars

\* SpecHealth: call sessions between users 1 and 2 are created, kept alive,
\* examined, ended and swept while the clock passes the two thresholds
NextHealth ==
    \/ CreateCall({1}, {2}, HealthCalls)
    \/ ClockTo(HealthTimes)
    \/ Heartbeat(HealthBeats)
    \/ CheckHealth(HealthChecks)
    \/ EndDrawn(HealthEnds)
    \/ Cleanup

SpecHealth == Init /\ [][NextHealth]_vars

\* SpecStatus: user 1 calls user 2; heartbeats, health checks, ends and
\* sweeps as in SpecHealth, signaling messages are validated and the calls of
\* a user are listed
NextStatus ==
    \/ CreateCall({1}, {2}, StatusCalls)
    \/ ClockTo({CleanupAfter + 1})
    \/ Heartbeat(StatusBeats)
    \/ CheckHealth(HealthChecks)
    \/ EndDrawn(HealthEnds)
    \/ Cleanup
    \/ ValidateMessage(ValRejects)
    \/ GetActiveCalls

SpecStatus == Init /\ [][NextStatus]_vars

\* SpecLog: the manager after user 1 has placed n calls to user 2 at time 0,
\* n within LogSlack of MaxEvents, so that the event log is full or nearly
\* full; then calls are placed and permissions are checked (a check of user
\* 1, who is over the rate limit, logs two events) and the rate-limit window
\* passes
PlacedCall(k) == create_call_session(<<>>, <<>>, k, 1, 2, "audio")

InitLog ==
    /\ InitRealtime
    /\ InitMessages
    /\ now = 0 /\ blocks = {} /\ friendships = {} /\ sealed = {}
    /\ lastOp = NoOp
    /\ ncalls \in (MaxEvents - LogSlack)..MaxEvents
    /\ active_calls = [k \in 1..ncalls |-> PlacedCall(k).ret]
    /\ security_events = [k \in 1..ncalls |-> PlacedCall(k).events[1]]

NextLog ==
    \/ CreateCall({1}, {2}, MaxEvents + LogCalls)
    \/ ValidatePermissions(LogChecks)
    \/ Tick({window_minutes * 60 + 1}, window_minutes * 60 + 1)

SpecLog == InitLog /\ [][NextLog]_vars

\* SpecMessages: messages with attachments are sent over HTTP while users
\* connect to the realtime channel
NextMessages ==
    \/ \E r \in Uploads :
        \/ Buffer(r)
        \/ Persist(r)
        \/ Notify(r)
        \/ Respond(r)
        \/ Uploaded(r)
        \/ PushUpdate(r)
        \/ TaskFinally(r)
    \/ \E c \in Conns :
        \/ Open(c, MsgConns, CoreAttempts)
        \/ Register(c)
        \/ BroadcastDone(c)

SpecMessages == Init /\ [][NextMessages]_vars

\* SpecBlocked: the database holds any block rows between users 1 and 2;
\* the two send each other attachments over HTTP and message and
\* webrtc-offer frames over their WebSocket connections
ChatFrames ==
    {f \in AllFrames :
        /\ f.type \in {"message", "webrtc-offer"}
        /\ f.data = "absent" /\ f.to_user_id = NoneId
        /\ f.receiver_id \in Callers
        /\ f.content # NoValue}

NextBlocked ==
    \/ NextMessages
    \/ \E c \in Conns :
        \/ Receive(c, ChatFrames, BlockFrames)
        \/ Echo(c)

SpecBlocked == InitPerm /\ [][NextBlocked]_vars

\* ------------------------------------------------------------------ claims
Entries(conns) == {conns[i] : i \in 1..Len(conns)}

\* C1: once a user's registration is replaced by a newer one, no payload is
\* written to the replaced socket, neither by send_json_to_user nor by
\* broadcast_to_friends.
C1_NoWriteToReplaced ==
    lastSend.ok => lastSend.ws \notin replaced

\* C2: the registry holds at most one socket per user id, and no handler of a
\* replaced socket is still in its receive loop.
C2_ReplacedIsDestroyed ==
    /\ \A i, j \in 1..Len(active_connections) :
            active_connections[i].user = active_connections[j].user => i = j
    /\ \A c \in replaced : pc[c] \notin {"recv", "echo"}

\* C3: a connection whose token is missing or invalid, or whose verified user
\* differs from the path user id, is closed with 1008 and never registered,
\* and no status is broadcast for it; every registry entry (u, h) was
\* registered by a handler whose token verified to u.
ValidFor(tok, u) == tok.kind = "access" /\ tok.sub = u /\ u \in Users

C3_OnlyVerifiedRegistered ==
    /\ \A c \in 1..nconn :
            ~ValidFor(token[c], conn_user[c]) =>
                /\ closeCode[c] = 1008
                /\ pc[c] = "closed"
                /\ c \notin registered
                /\ \A e \in Entries(active_connections) : e.ws # c
                /\ lastSend.src # c
    /\ \A c \in 1..nconn :
            ValidFor(token[c], conn_user[c]) => closeCode[c] = 0
    /\ \A e \in Entries(active_connections) :
            e.ws \in registered /\ ValidFor(token[e.ws], e.user)

C3_Witness ==
    \E c, d \in 1..nconn :
        /\ token[c].kind = "access" /\ token[c].sub \in Users
        /\ token[c].sub # conn_user[c]
        /\ closeCode[c] = 1008
        /\ [user |-> conn_user[d], ws |-> d] \in Entries(active_connections)


\* C4: a "message" frame from S to R makes the handler send the new_message
\* event (sender_id S, receiver_id R, the content, message_type "text") to R's
\* registered socket and then, whatever became of that send, to S's
\* registered socket.
C4_MessageStep(c) ==
    LET f == lastRecv'.frame
        S == conn_user[c]
        R == f.receiver_id
        p == [Blank EXCEPT !.type = "new_message", !.sender_id = S,
                           !.receiver_id = R, !.content = f.content,
                           !.message_type = "text"]
        h == Lookup(active_connections, R)
    IN  /\ nframes' = nframes + 1
        /\ lastRecv'.src = c
        /\ f.type = "message" /\ f.content # NoValue
        /\ f.data = "absent" /\ f.to_user_id = NoneId /\ R \in Users
        => /\ pc'[c] = "echo"
           /\ pending'[c] = p
           /\ lastSend'.src = c /\ lastSend'.user = R /\ lastSend'.payload = p
           /\ (h # NoWs /\ open[h]) => (lastSend'.ok /\ lastSend'.ws = h)

C4_EchoStep(c) ==
    LET S == conn_user[c]
        h == Lookup(active_connections, S)
    IN  pc[c] = "echo" /\ pc'[c] = "recv"
        => /\ pending[c].type = "new_message" /\ pending[c].sender_id = S
           /\ lastSend'.src = c /\ lastSend'.user = S
           /\ lastSend'.payload = pending[c]
           /\ (h # NoWs /\ open[h]) => (lastSend'.ok /\ lastSend'.ws = h)

C4_MessageReachesBoth ==
    [][\A c \in Conns : C4_MessageStep(c) /\ C4_EchoStep(c)]_vars

\* the echo is written to the sender's socket although R is not connected
C4_Witness ==
    /\ lastSend.via = "send" /\ lastSend.ok
    /\ lastSend.payload.type = "new_message"
    /\ lastSend.payload.content = "hi"
    /\ lastSend.user = lastSend.payload.sender_id
    /\ lastSend.ws = lastSend.src
    /\ lastSend.payload.receiver_id # lastSend.user
    /\ ~HasUser(active_connections, lastSend.payload.receiver_id)

\* C5: when a handler ends, its user is removed from the registry first, and
\* then every other connection registered at that moment is sent
\* {status, offline, user_id}, one after the other, until all were attempted.
C5_FinallyStep(c) ==
    LET u == conn_user[c]
        others == {e \in Entries(active_connections) : e.user # u}
    IN  teardown[c] = "none" /\ teardown'[c] # "none"
        => /\ ~HasUser(active_connections', u)
           /\ others = {} => teardown'[c] = "complete" /\ lastSend'.via = "none"
           /\ others # {} =>
                /\ teardown'[c] = "running"
                /\ Entries(snap'[c]) = others
                /\ Len(snap'[c]) = Cardinality(others)
                /\ idx'[c] = 1
                /\ lastSend'.src = c

C5_OfflineSend ==
    LET c == lastSend'.src
    IN  /\ lastSend'.via = "broadcast"
        /\ lastSend'.payload.status = "offline"
        /\ idx'[c] # idx[c]
        => /\ teardown'[c] = "running"
           /\ idx'[c] = (IF teardown[c] = "none" THEN 1 ELSE idx[c] + 1)
           /\ lastSend'.payload =
                [Blank EXCEPT !.type = "status", !.status = "offline",
                              !.user_id = conn_user[c]]
           /\ snap'[c][idx'[c]] = [user |-> lastSend'.user, ws |-> lastSend'.ws]
           /\ lastSend'.user # conn_user[c]
           /\ \A e \in Entries(active_connections') : e.ws # c

C5_Complete(c) ==
    teardown[c] = "running" /\ teardown'[c] = "complete"
        => idx[c] = Len(snap[c]) /\ pc'[c] = "closed"

C5_DisconnectCleanup ==
    [][/\ C5_OfflineSend
       /\ \A c \in Conns : C5_FinallyStep(c) /\ C5_Complete(c)]_vars

\* a client went away, its handler unregistered it and the last of the other
\* connections has just been sent the offline status
C5_Witness ==
    \E c \in Conns :
        /\ teardown[c] = "running" /\ ~open[c]
        /\ lastSend.src = c /\ lastSend.ok
        /\ lastSend.payload.status = "offline"
        /\ idx[c] = Len(snap[c]) /\ idx[c] = 2

\* C6: every handler that registered its connection runs the cleanup before
\* it ends, whichever way it ends.
C6_CleanupAlwaysRuns ==
    \A c \in registered : pc[c] = "closed" => teardown[c] # "none"

\* C7 (as claimed): send_json_to_user reports its outcome as a boolean, true
\* when the payload was written and false otherwise.
C7_ReturnsBool ==
    lastSend.via = "send" =>
        lastSend.ret = (IF lastSend.ok THEN "True" ELSE "False")

\* C7 (amended): send_json_to_user never raises and returns None in every
\* case; a written payload and an unconnected user leave the registry
\* unchanged, a failed write unregisters the user and nobody else.
C7_SendStep ==
    LET u == lastSend'.user
        h == Lookup(active_connections, u)
    IN  /\ lastSend'.via = "send"
        /\ nframes' # nframes \/ pc[lastSend'.src] = "echo"
        => /\ ~lastSend'.raised
           /\ lastSend'.ret = "None"
           /\ lastSend'.ws = h
           /\ h = NoWs => ~lastSend'.ok /\ active_connections' = active_connections
           /\ (h # NoWs /\ open[h]) =>
                    lastSend'.ok /\ active_connections' = active_connections
           /\ (h # NoWs /\ ~open[h]) =>
                    /\ ~lastSend'.ok
                    /\ ~HasUser(active_connections', u)
                    /\ \A v \in Users \ {u} :
                         Lookup(active_connections', v) =
                         Lookup(active_connections, v)

C7_SendOutcome == [][C7_SendStep]_vars

\* a write to a registered socket failed and the user was unregistered
C7_Witness ==
    /\ lastSend.via = "send" /\ lastSend.ws # NoWs /\ ~lastSend.ok
    /\ ~HasUser(active_connections, lastSend.user)
    /\ active_connections # <<>>

\* C8: broadcast_to_friends attempts a send to every connection registered
\* when it is called except self_id's; a failed send unregisters that target's
\* user id only, and the broadcast goes on to the remaining targets.
C8_Start(c) ==
    LET self == conn_user[c]
        others == {e \in Entries(active_connections) : e.user # self}
    IN  \/ pc[c] = "accepting" /\ pc'[c] # "accepting"
        \/ teardown[c] = "none" /\ teardown'[c] # "none"
        => IF others = {} THEN lastSend'.via = "none"
           ELSE /\ Entries(snap'[c]) = others
                /\ Len(snap'[c]) = Cardinality(others)
                /\ idx'[c] = 1
                /\ lastSend'.via = "broadcast" /\ lastSend'.src = c

C8_Send ==
    LET c == lastSend'.src
        self == conn_user[c]
        t == snap'[c][idx'[c]]
    IN  lastSend'.via = "broadcast" /\ idx'[c] # idx[c]
        => /\ idx'[c] \in 1..Len(snap'[c])
           /\ idx'[c] = 1 \/ (idx'[c] = idx[c] + 1 /\ snap'[c] = snap[c])
           /\ t.user # self
           /\ lastSend'.user = t.user /\ lastSend'.ws = t.ws
           /\ lastSend'.ok = open[t.ws]
           /\ ~lastSend'.raised
           /\ pc'[c] \in {"online", "offline"}
           /\ \A v \in Users \ {self, t.user} :
                Lookup(active_connections', v) = Lookup(active_connections, v)
           /\ lastSend'.ok =>
                Lookup(active_connections', t.user) =
                Lookup(active_connections, t.user)
           /\ ~lastSend'.ok => ~HasUser(active_connections', t.user)

C8_End(c) ==
    \/ pc[c] = "online" /\ pc'[c] = "recv"
    \/ teardown[c] = "running" /\ teardown'[c] = "complete"
    => idx[c] = Len(snap[c])

C8_BroadcastReachesAll ==
    [][C8_Send /\ \A c \in Conns : C8_Start(c) /\ C8_End(c)]_vars

\* the send to the first of two targets failed and the second is still to come
C8_Witness ==
    /\ lastSend.via = "broadcast" /\ ~lastSend.ok
    /\ pc[lastSend.src] \in {"online", "offline"}
    /\ idx[lastSend.src] = 1 /\ Len(snap[lastSend.src]) = 2
    /\ ~HasUser(active_connections, lastSend.user)
    /\ HasUser(active_connections, snap[lastSend.src][2].user)


\* C9: a typing_start, typing_stop, webrtc-offer, webrtc-answer,
\* webrtc-ice-candidate or call-ended frame is forwarded to the resolved
\* receiver's socket and to no other, with no echo to the sender, and the
\* event carries the handler's authenticated user id.
ForwardTypes ==
    {"typing_start", "typing_stop", "webrtc-offer", "webrtc-answer",
     "webrtc-ice-candidate", "call-ended"}

C9_ForwardStep ==
    LET c == lastRecv'.src
        f == lastRecv'.frame
        S == conn_user[c]
        R == ResolveReceiver(f)
        h == Lookup(active_connections, R)
        p == lastSend'.payload
    IN  /\ nframes' = nframes + 1
        /\ f.type \in ForwardTypes /\ f.data # "scalar" /\ Truthy(R)
        => /\ lastSend'.via = "send" /\ lastSend'.src = c
           /\ lastSend'.user = R /\ lastSend'.ws = h
           /\ lastSend'.ok = (h # NoWs /\ open[h])
           /\ p.type = f.type
           /\ IF f.type \in {"typing_start", "typing_stop"}
              THEN p.user_id = S /\ p.from_user_id = NoneId
              ELSE p.from_user_id = S /\ p.user_id = NoneId
           /\ p.sender_id = NoneId
           /\ pc'[c] = "recv" /\ pending'[c] = Blank

C9_ForwardToReceiverOnly == [][C9_ForwardStep]_vars

\* an offer whose frame names another user as from_user_id reached the
\* receiver under the sender's own id
C9_Witness ==
    /\ lastRecv.frame.type = "webrtc-offer"
    /\ lastRecv.frame.from_user_id # conn_user[lastRecv.src]
    /\ lastSend.ok /\ lastSend.ws # lastRecv.src
    /\ lastSend.payload.from_user_id = conn_user[lastRecv.src]

\* C10 (as claimed): a frame with an unknown type or without a required field
\* (receiver_id; content of message; offer, answer, candidate of the webrtc
\* frames) is ignored: nothing is sent, the registry is unchanged, the sender
\* stays in its receive loop.
NoReceiver(f) ==
    /\ ~Truthy(f.receiver_id) /\ ~Truthy(f.to_user_id)
    /\ f.data = "object" => ~Truthy(f.data_rid)

Ignored(c) ==
    /\ lastSend'.via = "none"
    /\ active_connections' = active_connections
    /\ pc'[c] = "recv" /\ open'[c] /\ teardown'[c] = "none"

C10_LacksRequired(f) ==
    \/ f.type \notin ForwardTypes \cup {"message"}
    \/ NoReceiver(f)
    \/ f.type = "message" /\ f.content = NoValue
    \/ f.type = "webrtc-offer" /\ f.offer = NoValue
    \/ f.type = "webrtc-answer" /\ f.answer = NoValue
    \/ f.type = "webrtc-ice-candidate" /\ f.candidate = NoValue

C10_IncompleteIgnored ==
    [][/\ nframes' = nframes + 1
       /\ lastRecv'.frame.data # "scalar"
       /\ C10_LacksRequired(lastRecv'.frame)
       => Ignored(lastRecv'.src)]_vars

\* C10 (amended): a frame with an unknown type, without a receiver id, or of
\* type message without content is ignored; a webrtc-offer, webrtc-answer or
\* webrtc-ice-candidate frame without its offer, answer or candidate is
\* forwarded with that field null.
C10_Unusable(f) ==
    \/ f.type \notin ForwardTypes \cup {"message"}
    \/ NoReceiver(f)
    \/ f.type = "message" /\ f.content = NoValue

C10_AmendedStep ==
    LET c == lastRecv'.src
        f == lastRecv'.frame
        p == lastSend'.payload
    IN  nframes' = nframes + 1 /\ f.data # "scalar"
        => /\ C10_Unusable(f) => Ignored(c)
           /\ (~NoReceiver(f) /\ f.type = "webrtc-offer" /\ f.offer = NoValue)
                => (lastSend'.via = "send" /\ p.type = f.type
                    /\ p.offer = NoValue)
           /\ (~NoReceiver(f) /\ f.type = "webrtc-answer" /\ f.answer = NoValue)
                => (lastSend'.via = "send" /\ p.type = f.type
                    /\ p.answer = NoValue)
           /\ (~NoReceiver(f) /\ f.type = "webrtc-ice-candidate"
               /\ f.candidate = NoValue)
                => (lastSend'.via = "send" /\ p.type = f.type
                    /\ p.candidate = NoValue)

C10_UnusableIgnored == [][C10_AmendedStep]_vars

\* a message frame with a receiver and no content was read and dropped while
\* the receiver was connected
C10_Witness ==
    /\ lastRecv.frame.type = "message" /\ lastRecv.frame.content = NoValue
    /\ Truthy(lastRecv.frame.receiver_id)
    /\ HasUser(active_connections, lastRecv.frame.receiver_id)
    /\ lastSend.via = "none"
    /\ pc[lastRecv.src] = "recv"

\* C11: a malformed inbound frame (its "data" field is not an object) is
\* dropped without closing the connection: the sender stays registered and in
\* its receive loop, nothing is sent and no other registration changes.
C11_MalformedDropped ==
    [][LET c == lastRecv'.src
       IN  nframes' = nframes + 1 /\ lastRecv'.frame.data = "scalar"
           => /\ pc'[c] = "recv" /\ teardown'[c] = "none"
              /\ active_connections' = active_connections
              /\ lastSend'.via = "none"]_vars

\* C12: every webrtc-offer, webrtc-answer, webrtc-ice-candidate or call-ended
\* event the server forwards goes from a party of a call session in
\* active_calls to the other party of that session.
C12_SignalingOnlyBetweenParties ==
    (lastSend.via = "send" /\ lastSend.ok
     /\ lastSend.payload.type \in SignalingTypes)
    => \E i \in 1..Len(active_calls) :
            {lastSend.payload.from_user_id, lastSend.user}
                = {active_calls[i].caller_id, active_calls[i].receiver_id}

\* C13: once a caller has created max_calls call sessions within the last
\* window_minutes minutes, validate_call_permissions rejects the caller's next
\* call, whatever sessions were ended in between.
RecentCreations(caller_id) ==
    Cardinality({i \in 1..Len(security_events) :
                    /\ security_events[i].type = "call_session_created"
                    /\ security_events[i].details.caller_id = caller_id
                    /\ security_events[i].timestamp > now - window_minutes * 60})

C13_EleventhRejected ==
    (lastOp.op = "validate_call_permissions"
     /\ RecentCreations(lastOp.args.caller_id) >= max_calls)
    => ~lastOp.ret.ok

\* C14: validate_call_permissions(caller, receiver) with a block row in
\* either direction returns (false, "Call not allowed - user blocked"), logs
\* one call_blocked event and nothing else, and changes no call session,
\* whether or not the two are friends and whether or not the caller is over
\* the rate limit.
C14_BlockedStep ==
    LET a == lastOp'.args.caller_id
        b == lastOp'.args.receiver_id
    IN  (lastOp'.op = "validate_call_permissions"
         /\ (<<a, b>> \in blocks \/ <<b, a>> \in blocks))
        => /\ lastOp'.ret = [ok |-> FALSE,
                             text |-> "Call not allowed - user blocked"]
           /\ security_events' = Append(security_events,
                    [type |-> "call_blocked", timestamp |-> now,
                     details |-> [caller_id |-> a, receiver_id |-> b,
                                  reason |-> "user_blocked"]])
           /\ active_calls' = active_calls

C14_BlockedFailsClosed == [][C14_BlockedStep]_vars

\* the receiver has blocked the caller, the two are friends, and the caller
\* is over the rate limit: the answer is "user blocked"
C14_Witness ==
    /\ lastOp.op = "validate_call_permissions"
    /\ <<lastOp.args.receiver_id, lastOp.args.caller_id>> \in blocks
    /\ <<lastOp.args.caller_id, lastOp.args.receiver_id>> \notin blocks
    /\ <<lastOp.args.receiver_id, lastOp.args.caller_id>> \in friendships
    /\ ~check_call_rate_limit(active_calls, lastOp.args.caller_id)
    /\ lastOp.ret.text = "Call not allowed - user blocked"
    /\ security_events[Len(security_events)].type = "call_blocked"

\* C19: no value returned by create_call_session or
\* get_active_calls_for_user, and no logged security event, contains a
\* session's session_key.
C19_KeyNeverLeaves ==
    /\ lastOp.op = "create_call_session"
            => "session_key" \notin DOMAIN lastOp.ret
    /\ lastOp.op = "get_active_calls_for_user"
            => \A i \in 1..Len(lastOp.ret) :
                    "session_key" \notin DOMAIN lastOp.ret[i]
    /\ \A i \in 1..Len(security_events) :
            "session_key" \notin DOMAIN security_events[i].details

\* C16: is_valid_call_id returns true exactly for the strings of CallIdLen
\* characters that are all hexadecimal digits.
IsHex64(str) ==
    Len(str) = CallIdLen /\ \A i \in 1..Len(str) : str[i] \in HexChars

C16_ExactlyHex64 ==
    lastOp.op = "is_valid_call_id"
        => (lastOp.ret <=> IsHex64(lastOp.args.call_id))

\* C17: validate_signaling_message rejects every message whose call_id is a
\* string, the empty string included, that is not CallIdLen hexadecimal digits.
C17_IllFormedRejected ==
    (lastOp.op = "validate_signaling_message"
     /\ lastOp.args.message.call_id.kind = "str"
     /\ ~IsHex64(lastOp.args.message.call_id.s))
    => ~lastOp.ret.ok

\* C15: validate_signaling_message rejects a message that carries a timestamp
\* as a replay, logging one replay_attack_detected event, exactly when its age
\* exceeds ReplayLimitMs milliseconds: an age of ReplayLimitMs + 1 is rejected,
\* the ages ReplayLimitMs - 1 and ReplayLimitMs are not (and the message is
\* accepted when it names no call).
ReplayText == "Message too old - possible replay attack"

C15_Step ==
    LET message == lastOp'.args.message
        user_id == lastOp'.args.user_id
        age == now * 1000 - message.timestamp.ms
    IN  (lastOp'.op = "validate_signaling_message" /\ message.timestamp.has)
        => /\ age >= ReplayLimitMs + 1 =>
                /\ lastOp'.ret = [ok |-> FALSE, text |-> ReplayText,
                                  raised |-> FALSE]
                /\ security_events' = Append(security_events,
                        [type |-> "replay_attack_detected", timestamp |-> now,
                         details |-> [user_id |-> user_id, message_age |-> age,
                                      message_type |-> message.type]])
           /\ age <= ReplayLimitMs =>
                /\ lastOp'.ret.text # ReplayText
                /\ CountEvents(security_events', {"replay_attack_detected"})
                    = CountEvents(security_events, {"replay_attack_detected"})
                /\ message.call_id.kind = "absent" =>
                        (lastOp'.ret.ok /\ security_events' = security_events)

C15_ReplayBoundary == [][C15_Step]_vars

\* a message exactly ReplayLimitMs old, received after the clock has moved,
\* was accepted
C15_Witness ==
    /\ lastOp.op = "validate_signaling_message"
    /\ lastOp.args.message.timestamp.has
    /\ now > 0
    /\ now * 1000 - lastOp.args.message.timestamp.ms = ReplayLimitMs
    /\ lastOp.ret.ok
    /\ security_events = <<>>

\* C18: for a message that passes the replay check and whose call_id is a
\* string, validate_signaling_message answers "Unauthorized access to call",
\* logging one unauthorized_call_access event, exactly when the call_id is the
\* key of a session in active_calls and user_id is neither its caller_id nor
\* its receiver_id; a well-formed call_id without a session is accepted; and
\* no validation changes active_calls.
UnauthorizedText == "Unauthorized access to call"

C18_Step ==
    LET message == lastOp'.args.message
        user_id == lastOp'.args.user_id
        age == now * 1000 - message.timestamp.ms
        fresh == ~message.timestamp.has \/ age <= ReplayLimitMs
        cid == message.call_id.s
        outsider ==
            /\ message.call_id.kind = "str"
            /\ \E i \in 1..Len(active_calls) :
                    /\ active_calls[i].call_id = cid
                    /\ user_id # active_calls[i].caller_id
                    /\ user_id # active_calls[i].receiver_id
    IN  lastOp'.op = "validate_signaling_message"
        => /\ active_calls' = active_calls
           /\ lastOp'.ret.text = UnauthorizedText => (fresh /\ outsider)
           /\ outsider => ~lastOp'.ret.ok
           /\ (fresh /\ outsider) =>
                /\ lastOp'.ret = [ok |-> FALSE, text |-> UnauthorizedText,
                                  raised |-> FALSE]
                /\ security_events' = Append(security_events,
                        [type |-> "unauthorized_call_access",
                         timestamp |-> now,
                         details |-> [user_id |-> user_id, call_id |-> cid,
                                      message_type |-> message.type]])
           /\ (fresh /\ message.call_id.kind = "str" /\ IsHex64(cid)
               /\ \A i \in 1..Len(active_calls) :
                        active_calls[i].call_id # cid)
                => (lastOp'.ret.ok /\ security_events' = security_events)

C18_UnauthorizedExactly == [][C18_Step]_vars

\* a user who is no party of the stored session named its call id and was
\* rejected; the session is still stored
C18_Witness ==
    /\ lastOp.op = "validate_signaling_message"
    /\ lastOp.ret.text = UnauthorizedText
    /\ HasCall(active_calls, lastOp.args.message.call_id.s)
    /\ security_events[Len(security_events)].type = "unauthorized_call_access"
    /\ security_events[Len(security_events)].details.user_id
            = lastOp.args.user_id

\* C20 (as claimed): for a stored session and any JSON-serializable dict D,
\* decrypt_signaling_data applied, under the same call id, to the envelope
\* that encrypt_signaling_data returned for D returns D.
C20_RoundTripAny ==
    [][LET e == lastOp'.args.sealed
       IN  (lastOp'.op = "decrypt_signaling_data"
            /\ lastOp'.args.call_id = e.call_id
            /\ HasCall(active_calls, e.call_id))
           => (~lastOp'.ret.none /\ lastOp'.ret.data = e.data)]_vars

\* C20 (amended): the round trip returns D when the keys of D are strings and
\* D holds no tuple; otherwise it returns D as JSON reads it back: keys
\* written as strings (a repeated name keeping its last value), tuples as
\* lists.  In both cases nothing is logged and active_calls is unchanged.
JsonShaped(data) ==
    \A i \in 1..Len(data) :
        data[i].k.kind = "str" /\ data[i].v.kind # "tuple"

C20_Step ==
    LET e == lastOp'.args.sealed
        out == lastOp'.ret.data
    IN  (lastOp'.op = "decrypt_signaling_data"
         /\ lastOp'.args.call_id = e.call_id
         /\ HasCall(active_calls, e.call_id))
        => /\ ~lastOp'.ret.none
           /\ JsonShaped(e.data) => out = e.data
           /\ \A i \in 1..Len(out) : out[i].k.kind = "str"
           /\ \A i \in 1..Len(e.data) :
                \E j \in 1..Len(out) :
                    out[j].k.text = dumps_key(e.data[i].k)
           /\ (Len(e.data) = 1 /\ ~JsonShaped(e.data)) => out # e.data
           /\ security_events' = security_events
           /\ active_calls' = active_calls

C20_RoundTripJson == [][C20_Step]_vars

\* a dict of three string-keyed items came back from the round trip while
\* another session was stored as well
C20_Witness ==
    /\ lastOp.op = "decrypt_signaling_data"
    /\ ~lastOp.ret.none
    /\ Len(lastOp.ret.data) = 3
    /\ lastOp.ret.data = lastOp.args.sealed.data
    /\ lastOp.args.call_id = lastOp.args.sealed.call_id
    /\ Len(active_calls) = 2

\* C21: encrypt_signaling_data and decrypt_signaling_data return None, logging
\* nothing, for a call_id that is not in active_calls (a session that was
\* ended included); decrypt_signaling_data returns None and logs one
\* decryption_failed event for an altered envelope and for an envelope sealed
\* under another session's key; in every case active_calls is unchanged.
DecryptOps == {"decrypt_signaling_data", "decrypt_signaling_data of altered"}

C21_Failed(call_id) ==
    /\ lastOp'.ret = NoneRet
    /\ security_events' = Append(security_events,
            [type |-> "decryption_failed", timestamp |-> now,
             details |-> [call_id |-> call_id, error |-> "InvalidTag"]])

C21_Step ==
    LET call_id == lastOp'.args.call_id
        known == HasCall(active_calls, call_id)
    IN  lastOp'.op \in DecryptOps \cup {"encrypt_signaling_data"}
        => /\ active_calls' = active_calls
           /\ ~known => (lastOp'.ret = NoneRet
                         /\ security_events' = security_events)
           /\ (known /\ lastOp'.op = "decrypt_signaling_data of altered")
                => C21_Failed(call_id)
           /\ (known /\ lastOp'.op = "decrypt_signaling_data"
               /\ lastOp'.args.sealed.call_id # call_id)
                => C21_Failed(call_id)

C21_FailuresAreValues == [][C21_Step]_vars

\* an envelope sealed for a session that was ended since was handed to
\* decrypt_signaling_data under the call id of a session that is stored
C21_Witness ==
    /\ lastOp.op = "decrypt_signaling_data"
    /\ lastOp.args.sealed.call_id # lastOp.args.call_id
    /\ ~HasCall(active_calls, lastOp.args.sealed.call_id)
    /\ HasCall(active_calls, lastOp.args.call_id)
    /\ lastOp.ret = NoneRet
    /\ security_events[Len(security_events)].type = "decryption_failed"

\* the call_session_ended event that ending session s at the current time
\* logs
EndedEvent(s, reason) ==
    [type |-> "call_session_ended", timestamp |-> now,
     details |-> [call_id |-> s.call_id, caller_id |-> s.caller_id,
                  receiver_id |-> s.receiver_id,
                  duration |-> now - s.created_at, reason |-> reason,
                  heartbeat_count |-> s.heartbeat_count]]

\* C22: cleanup_stale_calls removes exactly the sessions whose last heartbeat
\* is more than CleanupAfter seconds old: the sessions idle for CleanupAfter
\* seconds or less stay as they are and in their order, and the log gains one
\* call_session_ended event with reason "stale_cleanup" per removed session.
C22_Step ==
    LET idle(s) == now - s.last_heartbeat
        gone == SelectSeq(active_calls, LAMBDA s : idle(s) >= CleanupAfter + 1)
        kept == SelectSeq(active_calls, LAMBDA s : idle(s) <= CleanupAfter)
    IN  lastOp'.op = "cleanup_stale_calls"
        => /\ active_calls' = kept
           /\ security_events' =
                security_events \o
                    [i \in 1..Len(gone) |-> EndedEvent(gone[i], "stale_cleanup")]

C22_SweepsExactlyStale == [][C22_Step]_vars

\* a sweep removed a session and left one whose heartbeat is StaleAfter + 1
\* seconds old
C22_Witness ==
    /\ lastOp.op = "cleanup_stale_calls"
    /\ Len(active_calls) = 1
    /\ now - active_calls[1].last_heartbeat = StaleAfter + 1
    /\ Len(security_events) > 0
    /\ security_events[Len(security_events)].type = "call_session_ended"
    /\ security_events[Len(security_events)].timestamp = now
    /\ security_events[Len(security_events)].details.reason = "stale_cleanup"

\* C23: check_call_health(call_id) returns status "not_found" for a call_id
\* that is not in active_calls, "stale" when the last heartbeat is
\* StaleAfter + 1 seconds old or older, and otherwise "healthy" with the
\* session's duration and heartbeat_count; it leaves active_calls as it is.
C23_Step ==
    LET call_id == lastOp'.args.call_id
        s == GetCall(active_calls, call_id)
        idle == now - s.last_heartbeat
        ret == lastOp'.ret
    IN  lastOp'.op = "check_call_health"
        => /\ active_calls' = active_calls
           /\ ~HasCall(active_calls, call_id) => ret.status = "not_found"
           /\ HasCall(active_calls, call_id) =>
                /\ idle >= StaleAfter + 1 => ret.status = "stale"
                /\ idle <= StaleAfter =>
                    /\ ret.status = "healthy"
                    /\ ret.duration = now - s.created_at
                    /\ ret.heartbeat_count = s.heartbeat_count

C23_HealthStatus == [][C23_Step]_vars

\* a session whose last heartbeat is exactly StaleAfter seconds old was found
\* healthy
C23_Witness ==
    /\ lastOp.op = "check_call_health"
    /\ lastOp.ret.status = "healthy"
    /\ lastOp.ret.time_since_heartbeat = StaleAfter
    /\ lastOp.ret.heartbeat_count > 0
    /\ lastOp.ret.duration > StaleAfter

\* C24: end_call_session(call_id) on a stored session logs one
\* call_session_ended event with the session's duration and heartbeat_count,
\* removes that session and no other, and returns true; on any other call_id,
\* that of a session ended before included, it returns false and changes
\* neither active_calls nor the log.
C24_Step ==
    LET call_id == lastOp'.args.call_id
        ended_before ==
            \E i \in 1..Len(security_events) :
                /\ security_events[i].type = "call_session_ended"
                /\ security_events[i].details.call_id = call_id
    IN  lastOp'.op = "end_call_session"
        => /\ HasCall(active_calls, call_id) =>
                /\ lastOp'.ret = TRUE
                /\ active_calls' =
                        SelectSeq(active_calls, LAMBDA s : s.call_id # call_id)
                /\ Len(active_calls') = Len(active_calls) - 1
                /\ security_events' =
                        Append(security_events,
                               EndedEvent(GetCall(active_calls, call_id),
                                          "normal"))
           /\ ~HasCall(active_calls, call_id) =>
                /\ lastOp'.ret = FALSE
                /\ active_calls' = active_calls
                /\ security_events' = security_events
           /\ ended_before => lastOp'.ret = FALSE

C24_EndOnce == [][C24_Step]_vars

\* a session that end_call_session had ended was ended again, to no effect,
\* while another session is stored
C24_Witness ==
    /\ lastOp.op = "end_call_session"
    /\ lastOp.ret = FALSE
    /\ Len(active_calls) = 1
    /\ \E i \in 1..Len(security_events) :
            /\ security_events[i].type = "call_session_ended"
            /\ security_events[i].details.reason = "normal"
            /\ security_events[i].details.call_id = lastOp.args.call_id

\* C25: update_call_heartbeat(call_id) on a stored session sets its
\* last_heartbeat to the current time and adds 1 to its heartbeat_count,
\* changing no other field, no other session and not the log, and returns
\* true; on any other call_id it returns false and changes nothing.  A new
\* session starts with heartbeat_count 0 and no other step changes the
\* heartbeat_count or last_heartbeat of a stored session, so the count is
\* the number of successful updates; and last_heartbeat >= created_at.
C25_Beat ==
    LET call_id == lastOp'.args.call_id
    IN  IF HasCall(active_calls, call_id)
        THEN /\ lastOp'.ret = TRUE
             /\ Len(active_calls') = Len(active_calls)
             /\ \A i \in 1..Len(active_calls) :
                    active_calls'[i] =
                        IF active_calls[i].call_id = call_id
                        THEN [active_calls[i] EXCEPT
                                !.last_heartbeat = now,
                                !.heartbeat_count =
                                    active_calls[i].heartbeat_count + 1]
                        ELSE active_calls[i]
             /\ security_events' = security_events
        ELSE /\ lastOp'.ret = FALSE
             /\ active_calls' = active_calls
             /\ security_events' = security_events

C25_Other ==
    \A j \in 1..Len(active_calls') :
        IF HasCall(active_calls, active_calls'[j].call_id)
        THEN active_calls'[j] = GetCall(active_calls, active_calls'[j].call_id)
        ELSE /\ active_calls'[j].heartbeat_count = 0
             /\ active_calls'[j].last_heartbeat = active_calls'[j].created_at

C25_Inv ==
    \A i \in 1..Len(active_calls) :
        /\ active_calls[i].last_heartbeat >= active_calls[i].created_at
        /\ active_calls[i].heartbeat_count >= 0

C25_Step ==
    /\ IF lastOp'.op = "update_call_heartbeat" THEN C25_Beat ELSE C25_Other
    /\ C25_Inv'

C25_HeartbeatCounts == [][C25_Step]_vars

\* the second heartbeat of a session arrived later than its first, while
\* another session without heartbeats is stored
C25_Witness ==
    /\ lastOp.op = "update_call_heartbeat"
    /\ lastOp.ret = TRUE
    /\ Len(active_calls) = 2
    /\ \E i, j \in 1..2 :
            /\ active_calls[i].call_id = lastOp.args.call_id
            /\ active_calls[i].heartbeat_count = 2
            /\ active_calls[i].last_heartbeat = now
            /\ active_calls[i].created_at < now
            /\ active_calls[j].heartbeat_count = 0
            /\ active_calls[j].last_heartbeat < now

\* C26: create_call_session(caller_id, receiver_id, call_type) appends one
\* session to active_calls under a call_id of CallIdLen hexadecimal digits
\* that was not drawn before, with status "initiating", heartbeat_count 0 and
\* the given caller, receiver and call type, logs one call_session_created
\* event, and leaves the sessions stored before as they are.
C26_Step ==
    LET n == Len(active_calls)
        new == active_calls'[n + 1]
    IN  lastOp'.op = "create_call_session"
        => /\ Len(active_calls') = n + 1
           /\ SubSeq(active_calls', 1, n) = active_calls
           /\ IsHex64(new.call_id)
           /\ new.call_id \notin DrawnCallIds
           /\ ~HasCall(active_calls, new.call_id)
           /\ new.status = "initiating"
           /\ new.heartbeat_count = 0
           /\ new.caller_id = lastOp'.args.caller_id
           /\ new.receiver_id = lastOp'.args.receiver_id
           /\ new.call_type = "audio"
           /\ new.created_at = now
           /\ security_events' =
                Append(security_events,
                       [type |-> "call_session_created", timestamp |-> now,
                        details |-> [call_id |-> new.call_id,
                                     caller_id |-> new.caller_id,
                                     receiver_id |-> new.receiver_id,
                                     call_type |-> new.call_type]])

C26_CreateAddsOne == [][C26_Step]_vars

\* a second session was created while the first, which has heartbeats, is
\* stored
C26_Witness ==
    /\ lastOp.op = "create_call_session"
    /\ Len(active_calls) = 2
    /\ active_calls[1].heartbeat_count > 0
    /\ active_calls[2].call_id = lastOp.ret.call_id
    /\ active_calls[2].created_at > active_calls[1].created_at

\* C27: the security event log never holds more than MaxEvents entries, and
\* a step that logs k events leaves the log with what it held followed by
\* the k new events in their logging order, less as many of the oldest
\* entries as it takes to hold MaxEvents: the log is the MaxEvents most
\* recently logged events, oldest first.
C27_Logged ==
    LET a == lastOp'.args
        who == [caller_id |-> a.caller_id, receiver_id |-> a.receiver_id]
        event(type, details) ==
            [type |-> type, timestamp |-> now, details |-> details]
        non_friend ==
            event("call_non_friend", who @@ [reason |-> "not_friends"])
        rate_limited ==
            event("call_rate_limited",
                  who @@ [reason |-> "rate_limit_exceeded"])
    IN  CASE lastOp'.op = "create_call_session" ->
                <<event("call_session_created",
                        who @@ [call_id |-> lastOp'.ret.call_id,
                                call_type |-> lastOp'.ret.call_type])>>
          [] lastOp'.op = "validate_call_permissions" ->
                IF lastOp'.ret.ok THEN <<non_friend>>
                ELSE <<non_friend, rate_limited>>
          [] OTHER -> <<>>

C27_Step ==
    LET all == security_events \o C27_Logged
        dropped == IF Len(all) > MaxEvents THEN Len(all) - MaxEvents ELSE 0
    IN  /\ Len(security_events') <= MaxEvents
        /\ Len(security_events') = Len(all) - dropped
        /\ \A i \in 1..Len(security_events') :
                security_events'[i] = all[dropped + i]

C27_LastThousand == [][C27_Step]_vars

\* the log was full when a permission check logged two events: the two
\* oldest entries are gone and the log ends with the two new ones
C27_Witness ==
    /\ lastOp.op = "validate_call_permissions"
    /\ ~lastOp.ret.ok
    /\ Len(security_events) = MaxEvents
    /\ ncalls = MaxEvents + 1
    /\ security_events[1].details.call_id = generate_call_id(4)
    /\ security_events[MaxEvents - 2].type = "call_session_created"
    /\ security_events[MaxEvents - 1].type = "call_non_friend"
    /\ security_events[MaxEvents].type = "call_rate_limited"

\* the pushes of request r, in order, as <<type, to>>
PushesOf(r) ==
    LET mine == SelectSeq(pushes, LAMBDA p : p.request = r)
    IN  [i \in 1..Len(mine) |-> <<mine[i].type, mine[i].to>>]

\* the persisted status of row id: the value of its status column
PersistedStatus(id) ==
    IF "status" \in DOMAIN messages[id] THEN messages[id].status ELSE NoValue

\* C28: once send_message has committed the row of a message with an
\* attachment, the row holds status "uploading" and the placeholder type
\* until the task updates it, and new_message and conversation_update are
\* handed to the registry for the sender and for the receiver before any
\* message_updated of that message.
C28_Placeholder(r) ==
    LET u == uploads[r]
    IN  u.pc \in {"notify", "uploading"}
        => /\ PersistedStatus(u.message_id) = "uploading"
           /\ messages[u.message_id].message_type = "file"

C28_Order(r) ==
    LET u == uploads[r]
        seq == PushesOf(r)
        first(ev) == CHOOSE i \in 1..Len(seq) :
                        seq[i] = ev /\ \A j \in 1..(i - 1) : seq[j] # ev
        has(ev) == \E i \in 1..Len(seq) : seq[i] = ev
        placeholder ==
            {<<ty, to>> : ty \in {"new_message", "conversation_update"},
                          to \in {u.sender_id, u.receiver_id}}
    IN  \A i \in 1..Len(seq) :
            seq[i][1] = "message_updated"
                => \A ev \in placeholder : has(ev) /\ first(ev) < i

C28_PlaceholderFirst == \A r \in Uploads : C28_Placeholder(r) /\ C28_Order(r)

\* C29: when the task of an attachment message is over, the persisted status
\* of the message is "sent", with media_url and message_type set, if the
\* upload and the update of the row succeeded, and "failed" if the upload or
\* the update failed; and message_updated was handed to the registry for the
\* sender and for the receiver.
C29_Settled(r) ==
    LET u == uploads[r]
        row == messages[u.message_id]
        seq == PushesOf(r)
    IN  u.pc = "done"
        => /\ PersistedStatus(u.message_id) # "uploading"
           /\ u.commit = "ok" =>
                /\ PersistedStatus(u.message_id) = "sent"
                /\ row.media_url = secure_url(u.filename)
                /\ row.message_type = detected_type(u.filename)
           /\ (u.upload = "raised" \/ u.commit = "raised") =>
                PersistedStatus(u.message_id) = "failed"
           /\ \E i \in 1..Len(seq) :
                seq[i] = <<"message_updated", u.sender_id>>
           /\ \E i \in 1..Len(seq) :
                seq[i] = <<"message_updated", u.receiver_id>>

C29_UploadSettles == \A r \in Uploads : C29_Settled(r)

\* C30: when a request that has written its buffered file is over (413, the
\* placeholder row not persisted, or the task finished whatever its upload
\* and its commits did), the file is no longer in TEMP_MEDIA_DIR.
C30_NoFileLeft ==
    \A r \in Uploads :
        uploads[r].pc \in {"413", "500", "done"} => r \notin temp_media


\* C31: when a handler enters its registered state it first puts its socket
\* into the registry under its user id and then sends {status, online,
\* user_id} to every other connection registered at that moment and never to
\* its own socket; it reads its first frame only after the last send of this
\* broadcast has returned.
C31_Enter(c) ==
    LET u == conn_user[c]
        others == {e \in Entries(connect(active_connections, c, u)) : e.user # u}
    IN  pc[c] = "accepting" /\ pc'[c] # "accepting"
        => /\ c \in registered'
           /\ Lookup(active_connections', u) = c
           /\ Entries(snap'[c]) = others
           /\ Len(snap'[c]) = Cardinality(others)
           /\ IF others = {}
              THEN pc'[c] = "recv" /\ lastSend'.via = "none"
              ELSE pc'[c] = "online" /\ idx'[c] = 1 /\ lastSend'.src = c

C31_Online ==
    LET c == lastSend'.src
        u == conn_user[c]
    IN  /\ lastSend'.via = "broadcast"
        /\ lastSend'.payload.status = "online"
        /\ idx'[c] # idx[c]
        => /\ c \in registered'
           /\ lastSend'.payload =
                [Blank EXCEPT !.type = "status", !.status = "online",
                              !.user_id = u]
           /\ snap'[c][idx'[c]] = [user |-> lastSend'.user, ws |-> lastSend'.ws]
           /\ idx'[c] = (IF pc[c] = "accepting" THEN 1 ELSE idx[c] + 1)
           /\ lastSend'.user # u /\ lastSend'.ws # c

C31_Read(c) ==
    /\ nframes' = nframes + 1 /\ lastRecv'.src = c
            => pc[c] = "recv" /\ snap[c] = <<>> /\ c \in registered
    /\ pc[c] = "online" /\ pc'[c] = "recv" => idx[c] = Len(snap[c])
    /\ pc[c] = "online" => pc'[c] \in {"online", "recv", "closed"}

C31_OnlineBeforeReading ==
    [][C31_Online /\ \A c \in Conns : C31_Enter(c) /\ C31_Read(c)]_vars

\* the third connection has been registered and has just sent its online
\* status to the second of the two connections registered before it
C31_Witness ==
    \E c \in Conns :
        /\ pc[c] = "online" /\ idx[c] = 2 /\ Len(snap[c]) = 2
        /\ Lookup(active_connections, conn_user[c]) = c
        /\ lastSend.src = c /\ lastSend.via = "broadcast" /\ lastSend.ok
        /\ lastSend.payload = StatusPayload("online", conn_user[c])
        /\ lastSend.ws = snap[c][2].ws


\* C32: the receiver of a frame (whose "data", if present, is an object) is
\* the user id in data.receiver_id if that field carries one, else the one in
\* the top-level receiver_id, else the one in to_user_id; when the fields
\* carry different user ids the event goes to the socket registered for the
\* first of them in this order, and the lower-priority ids are not written to
\* by this step.
C32_Carried(f) ==
    <<IF f.data = "object" /\ f.data_rid \in 1..FrameUsers
      THEN f.data_rid ELSE NoneId,
      IF f.receiver_id \in 1..FrameUsers THEN f.receiver_id ELSE NoneId,
      IF f.to_user_id \in 1..FrameUsers THEN f.to_user_id ELSE NoneId>>

C32_Step ==
    LET c == lastRecv'.src
        f == lastRecv'.frame
        ids == C32_Carried(f)
        first == IF ids[1] # NoneId THEN ids[1]
                 ELSE IF ids[2] # NoneId THEN ids[2] ELSE ids[3]
    IN  /\ nframes' = nframes + 1
        /\ f.data # "scalar"
        /\ f.type \in ForwardTypes \/ (f.type = "message" /\ f.content # NoValue)
        => IF first = NoneId
           THEN lastSend'.via = "none"
           ELSE /\ lastSend'.via = "send" /\ lastSend'.src = c
                /\ lastSend'.user = first
                /\ lastSend'.ws = Lookup(active_connections, first)
                /\ lastSend'.ok =
                     (HasUser(active_connections, first)
                      /\ open[Lookup(active_connections, first)])
                /\ f.type = "message" => lastSend'.payload.receiver_id = first

C32_ReceiverPriority == [][C32_Step]_vars

\* a frame naming user 2 in data.receiver_id and the sender itself in
\* receiver_id and to_user_id was written to user 2's socket
C32_Witness ==
    LET f == lastRecv.frame
    IN  /\ f.data = "object" /\ f.data_rid \in 1..FrameUsers
        /\ f.receiver_id \in 1..FrameUsers /\ f.receiver_id # f.data_rid
        /\ f.to_user_id = f.receiver_id
        /\ conn_user[lastRecv.src] = f.receiver_id
        /\ lastSend.via = "send" /\ lastSend.ok
        /\ lastSend.user = f.data_rid
        /\ lastSend.ws # lastRecv.src


\* C33: a text frame received from an anonymous connection is written
\* verbatim to every other anonymous connection and to nothing else (not to
\* its sender), and a write that fails does not end the sending connection.
Anonymous(c) == pc[c] \in {"anon", "anon_send"}

C33_Targets(c) ==
    LET others == {d \in Conns \ {c} : Anonymous(d)}
    IN  /\ nframes' = nframes + 1 /\ lastRecv'.src = c
        /\ lastRecv'.frame.type = "text"
        /\ others # {}
        => /\ lastSend'.via = "text"
           /\ lastSend'.raised \/ {e.ws : e \in Entries(snap'[c])} = others

C33_Write ==
    /\ lastSend'.via = "text"
    /\ lastSend' # lastSend \/ idx' # idx
    => /\ Anonymous(lastSend'.ws)
       /\ lastSend'.ws # lastSend'.src
       /\ lastSend'.payload.content = bpayload'[lastSend'.src].content
                \/ lastSend'.raised
       /\ pc'[lastSend'.src] # "closed"

C33_AnonymousRelay == [][C33_Write /\ \A c \in Conns : C33_Targets(c)]_vars


\* C34: a handler performs its sends in call order.  Every send of a handler
\* is made for the frame it has just read, before it reads its next frame, so
\* the events it forwards to one receiver are written in the order of its
\* inbound frames; and for a "message" frame the send to the receiver is
\* made first and the echo to the sender is the handler's next send.
C34_Send ==
    LET c == lastSend'.src
        f == lastRecv'.frame
    IN  lastSend'.via = "send" /\ (lastSend' # lastSend \/ nframes' # nframes
                                  \/ pc' # pc)
        => \/ /\ nframes' = nframes + 1 /\ lastRecv'.src = c
              /\ pc[c] = "recv" /\ pending[c] = Blank
              /\ lastSend'.user = ResolveReceiver(f)
              /\ lastSend'.payload.type =
                    (IF f.type = "message" THEN "new_message" ELSE f.type)
              /\ lastSend'.payload.content = f.content
              /\ pc'[c] = (IF f.type = "message" THEN "echo" ELSE "recv")
              /\ f.type = "message" => pending'[c] = lastSend'.payload
           \/ /\ nframes' = nframes
              /\ pc[c] = "echo" /\ pc'[c] = "recv"
              /\ lastSend'.user = conn_user[c]
              /\ lastSend'.payload = pending[c]
              /\ pending'[c] = Blank

C34_Read(c) ==
    /\ nframes' = nframes + 1 /\ lastRecv'.src = c => pc[c] = "recv"
    /\ pc[c] = "echo" =>
            \/ pc'[c] = "echo" /\ pending'[c] = pending[c]
            \/ pc'[c] = "recv" /\ lastSend'.src = c /\ lastSend'.via = "send"
            \/ teardown'[c] # "none"

C34_CallOrder == [][C34_Send /\ \A c \in Conns : C34_Read(c)]_vars

\* the second frame of the run, a message, has been written to its receiver
\* and then echoed to its sender, both still registered
C34_Witness ==
    LET c == lastSend.src
        p == lastSend.payload
    IN  /\ nframes = 2
        /\ lastSend.via = "send" /\ lastSend.ok
        /\ p.type = "new_message" /\ p.sender_id = conn_user[c]
        /\ lastSend.user = conn_user[c] /\ lastSend.ws = c
        /\ p.receiver_id # conn_user[c]
        /\ HasUser(active_connections, p.receiver_id)
        /\ open[Lookup(active_connections, p.receiver_id)]
        /\ pc[c] = "recv" /\ pending[c] = Blank


\* C35: ConnectionManager.disconnect(user_id) removes user_id's entry if it
\* is present, changes nothing if it is absent, leaves every other user's
\* entry and the order of the entries as they are, and a second call leaves
\* the registry of the first; the handler's finally block, which calls it,
\* also runs to its broadcast when a failed send has removed the entry
\* before.
C35_Once(conns, u) ==
    LET d == disconnect(conns, u)
    IN  /\ ~HasUser(d, u)
        /\ Entries(d) = {e \in Entries(conns) : e.user # u}
        /\ Len(d) = Len(conns) - (IF HasUser(conns, u) THEN 1 ELSE 0)
        /\ \A i, j \in 1..Len(d) :
                i < j => \E k, l \in 1..Len(conns) :
                            k < l /\ conns[k] = d[i] /\ conns[l] = d[j]
        /\ ~HasUser(conns, u) => d = conns
        /\ disconnect(d, u) = d

C35_Inv == \A u \in 1..(NumUsers + 1) : C35_Once(active_connections, u)

C35_Step ==
    /\ C35_Inv'
    /\ \A c \in Conns :
        LET u == conn_user[c]
        IN  teardown[c] = "none" /\ teardown'[c] # "none"
            => /\ ~HasUser(active_connections', u)
               /\ \A v \in Users \ {u} :
                    \/ Lookup(active_connections', v)
                            = Lookup(active_connections, v)
                    \/ /\ ~HasUser(active_connections', v)
                       /\ lastSend'.user = v /\ ~lastSend'.ok
               /\ teardown'[c] \in {"running", "complete"}

C35_DisconnectIdempotent == [][C35_Step]_vars

\* a failed send has removed the entry of a user whose handler is still in
\* its receive loop and will call disconnect again in its finally block; the
\* sender's entry is untouched
C35_Witness ==
    /\ lastSend.via = "send" /\ ~lastSend.ok /\ lastSend.ws # NoWs
    /\ pc[lastSend.ws] = "recv" /\ teardown[lastSend.ws] = "none"
    /\ ~HasUser(active_connections, lastSend.user)
    /\ Lookup(active_connections, conn_user[lastSend.src]) = lastSend.src


\* C36: whenever the most recently registered connection of a user is open
\* and its handler is in the receive loop, the registry maps the user to that
\* socket, and the user is not announced as offline; the teardown of an
\* older, replaced connection of the user and a failed send on a stale socket
\* of the user do not change that.
\* (c is the latest registration of its user: nothing overwrote it, and every
\* other registration of the user was overwritten)
C36_Latest(c) ==
    /\ c \in registered /\ c \notin replaced
    /\ \A d \in registered \ {c} : conn_user[d] = conn_user[c] => d \in replaced

C36_Live(c) == C36_Latest(c) /\ open[c] /\ pc[c] = "recv"

C36_Mapped == \A c \in Conns : C36_Live(c) => Lookup(active_connections, conn_user[c]) = c

C36_NotOffline ==
    \A c \in Conns :
        C36_Live(c) =>
            ~(/\ lastSend.via = "broadcast"
              /\ lastSend.payload = StatusPayload("offline", conn_user[c]))

C36_MembershipTracksLiveness == C36_Mapped /\ C36_NotOffline


\* C37: while a block row exists between users S and R, in either direction,
\* no new_message event and no webrtc-offer from S is written to R's socket,
\* neither by the HTTP endpoint send_message nor by the WebSocket handler.
C37_From(p) ==
    IF "data" \in DOMAIN p THEN p.data.sender_id
    ELSE IF p.type = "new_message" THEN p.sender_id
    ELSE p.from_user_id

C37_Delivered(S, R) ==
    /\ lastSend.via = "send" /\ lastSend.ok
    /\ lastSend.payload.type \in {"new_message", "webrtc-offer"}
    /\ C37_From(lastSend.payload) = S
    /\ lastSend.user = R

C37_BlockEnforced ==
    \A S, R \in Users :
        S # R /\ block_query(blocks, S, R) => ~C37_Delivered(S, R)

\* the HTTP endpoint alone: no event of a request between a blocked pair
C37_HttpEnforced ==
    \A i \in 1..Len(pushes) :
        LET u == uploads[pushes[i].request]
        IN  ~block_query(blocks, u.sender_id, u.receiver_id)

C37_HttpWitness ==
    \E r \in Uploads :
        /\ uploads[r].pc = "403"
        /\ Lookup(active_connections, uploads[r].receiver_id) # NoWs


\* C38: every session stored in active_calls has status "initiating" from
\* its creation until it is deleted: no heartbeat, health check, validation,
\* listing, end or sweep changes the status of a stored session, and the
\* listing of a user's calls reports "initiating" for each.
C38_Stored ==
    \A i \in 1..Len(active_calls) : active_calls[i].status = "initiating"

C38_Step ==
    /\ C38_Stored'
    /\ \A i \in 1..Len(active_calls) :
         \A j \in 1..Len(active_calls') :
            active_calls'[j].call_id = active_calls[i].call_id
                => active_calls'[j].status = active_calls[i].status
    /\ lastOp'.op = "get_active_calls_for_user" =>
            \A k \in 1..Len(lastOp'.ret) : lastOp'.ret[k].status = "initiating"

C38_StatusNeverChanges == [][C38_Step]_vars

\* a session that has had a heartbeat and was found stale is listed
C38_Witness ==
    /\ lastOp.op = "get_active_calls_for_user"
    /\ Len(lastOp.ret) > 0
    /\ \E i \in 1..Len(active_calls) :
            /\ active_calls[i].heartbeat_count = StatusBeats
            /\ now - active_calls[i].last_heartbeat > StaleAfter
    /\ CountEvents(security_events, {"call_stale_detected"}) > 0


\* C39: validate_signaling_message applies its replay check only to a
\* message that carries a timestamp and is older than the limit: a message
\* without a timestamp, or with a timestamp in the future, is never rejected
\* as a replay, and it is accepted if its call_id is absent or empty, or is
\* well-formed and names no session or a session of the user; an accepted
\* validation changes nothing, so the same message is accepted again.
C39_CallIdPasses(message, user_id) ==
    \/ message.call_id.kind = "absent"
    \/ /\ message.call_id.kind = "str"
       /\ \/ message.call_id.s = <<>>
          \/ /\ IsHex64(message.call_id.s)
             /\ \A i \in 1..Len(active_calls) :
                    active_calls[i].call_id = message.call_id.s
                    => user_id \in {active_calls[i].caller_id,
                                    active_calls[i].receiver_id}

C39_Step ==
    LET message == lastOp'.args.message
        user_id == lastOp'.args.user_id
        age == now * 1000 - message.timestamp.ms
    IN  /\ lastOp'.op = "validate_signaling_message"
        /\ ~message.timestamp.has \/ age < 0
        => /\ lastOp'.ret.text # ReplayText
           /\ CountEvents(security_events', {"replay_attack_detected"})
                = CountEvents(security_events, {"replay_attack_detected"})
           /\ C39_CallIdPasses(message, user_id) =>
                /\ lastOp'.ret = [ok |-> TRUE, text |-> "Message valid",
                                  raised |-> FALSE]
                /\ security_events' = security_events
                /\ active_calls' = active_calls
                /\ validate_signaling_message(active_calls', security_events',
                                              message, user_id).ok

C39_NoTimestampNoReplayCheck == [][C39_Step]_vars

\* a party of a stored session had a message without a timestamp accepted
\* after the clock had moved
C39_Witness ==
    /\ lastOp.op = "validate_signaling_message"
    /\ ~lastOp.args.message.timestamp.has
    /\ lastOp.args.message.call_id.kind = "str"
    /\ HasCall(active_calls, lastOp.args.message.call_id.s)
    /\ now > 0
    /\ lastOp.ret.ok

\* a message stamped in the future was accepted
C39_FutureWitness ==
    /\ lastOp.op = "validate_signaling_message"
    /\ lastOp.args.message.timestamp.has
    /\ now * 1000 - lastOp.args.message.timestamp.ms < 0
    /\ lastOp.ret.ok


\* C40: after any sequence of block_user, unblock_user, send_friend_request,
\* accept_friend_request, reject_friend_request and unfriend, no pair of
\* users is in a block relation and at the same time friends or parties of a
\* pending friend request.
C40_Pending(a, b) == \E q \in requests_between(a, b) : q.status = "pending"

C40_BlockExcludesFriendship ==
    \A a, b \in Callers :
        block_query(blocks, a, b) =>
            ~friendship_query(friendships, a, b) /\ ~C40_Pending(a, b)

\* the part that holds: a block that has just been created leaves the pair
\* without friendship and without friend requests
C40_BlockingRemoves ==
    (lastOp.op = "block_user" /\ lastOp.ret = 200) =>
        /\ ~friendship_query(friendships, lastOp.args.current_user,
                             lastOp.args.user_id)
        /\ requests_between(lastOp.args.current_user, lastOp.args.user_id) = {}

====
